---- MODULE Spec2Model ----
(***************************************************************************)
(* A model of the retrieval layer of the schema-chat server: the chunker   *)
(* (splitIntoChunks), the embedding provider chain (generateEmbeddings),   *)
(* the vector store with its two backends (vectorStore.js) and the         *)
(* retrieval orchestrator (retrieveSchemaContext).                         *)
(*                                                                         *)
(* Four specifications share the variables below:                          *)
(*   SpecSplit  one run of splitIntoChunks, one loop iteration per step;   *)
(*   SpecEmbed  one call of generateEmbeddings, or the successive calls of *)
(*              one store call, one provider step per step;                *)
(*   Spec       the vector store under interleaved requests;               *)
(*   SpecSim    one call of a cosineSimilarity routine.                    *)
(* A specification leaves the variables of the others at their idle        *)
(* values.                                                                 *)
(***************************************************************************)
EXTENDS Integers, Sequences, FiniteSets, TLC

VARIABLES
    \* ---- splitIntoChunks (index.js:444-468) ----
    text,        \* the argument: a string, as a sequence of characters
    chunkSize,   \* the argument
    overlap,     \* the argument
    start,       \* the cursor
    chunks,      \* the chunks pushed so far
    windows,     \* history: one record per iteration of the loop
    splitPc,     \* "idle", "loop" or "done"
    \* ---- generateEmbeddings (embed.js, src/unnamed/part_000:297-515) ----
    provider,    \* EMBEDDING_CONFIG.provider
    apiKey,      \* whether EMBEDDING_CONFIG.openai.apiKey is set
    input,       \* the argument: [isArray, chunks]
    embeddings,  \* the array generateOllamaEmbeddings fills
    result,      \* the value the call returned
    log,         \* history: the requests, failures and fallbacks of the call
    embedPc,     \* "idle", or the await the call is suspended at, or "returned"/"threw"
    catalog,     \* what the model-catalog probe of the call answered
    ingestion,   \* the store call the call belongs to: its chunks, the loop's index
    trace,       \* history: the logs of the ingestion's earlier calls
    \* ---- the environment ----
    providerDim, \* the length of the vectors the provider's model answers with
    clock,       \* Date.now()
    \* ---- the vector store (vectorStore.js) and its callers ----
    vectorStore, \* global.vectorStore: "undefined", "memory" or "chroma"
    documents,   \* in-memory store: projectId -> reference to its array (Map)
    heap,        \* the arrays the references point to
    collection,  \* the records of the ChromaDB collection
    calls,       \* the storeSchemaEmbeddings calls in flight, per request slot
    stores,      \* how many store calls have begun
    ret,         \* the outcome of the operation that has just completed
    \* ---- cosineSimilarity (vectorStore.js:286-309, part_000:493-509) ----
    argA,        \* the first argument, vecA
    argB,        \* the second argument, vecB
    simOut,      \* what the call did: the routine, whether it threw, its value
    simPc,       \* "idle", "call" or "done"
    \* ---- one chat request (index.js:112-162, chatTool.js) ----
    hasUserId,   \* whether the request body carried a userId
    openAIKey,   \* whether process.env.OPENAI_API_KEY is set
    sse,         \* the events written to the response, in order
    genOut,      \* generateStreamingResponse: how it ended, which model answered
    chatPc       \* "idle", or the await the request is at, or how it ended

splitVars == <<text, chunkSize, overlap, start, chunks, windows, splitPc>>

embedVars ==
    <<provider, apiKey, input, embeddings, result, log, embedPc, catalog, ingestion, trace>>

envVars == <<providerDim, clock>>

storeVars == <<vectorStore, documents, heap, collection, calls, stores, ret>>

simVars == <<argA, argB, simOut, simPc>>

chatVars == <<hasUserId, openAIKey, sse, genOut, chatPc>>

vars == <<splitVars, embedVars, envVars, storeVars, simVars, chatVars>>

\* The values the chunker's variables keep while another component runs.
SplitIdle ==
    /\ text = <<>>
    /\ chunkSize = 1
    /\ overlap = 0
    /\ start = 0
    /\ chunks = <<>>
    /\ windows = <<>>
    /\ splitPc = "idle"

\* The probe of the call has not answered.
NoCatalog == [answered |-> FALSE, models |-> {}]

\* A call of generateEmbeddings that no store call made.
NoIngestion == [chunks |-> <<>>, i |-> 0]

\* The values the embedding call's variables keep while another component runs.
EmbedIdle ==
    /\ provider = "mock"
    /\ apiKey = FALSE
    /\ input = [isArray |-> FALSE, chunks |-> <<>>]
    /\ embeddings = <<>>
    /\ result = "none"
    /\ log = <<>>
    /\ embedPc = "idle"
    /\ catalog = NoCatalog
    /\ ingestion = NoIngestion
    /\ trace = <<>>

\* Request slots on which store calls run, and the projects they name.
Calls == {1, 2}

Projects == {"p1", "p2"}

\* No array: the Map has no entry, or the call holds no reference.
NoRef == 0

\* References to arrays: one per project and one per call is enough, since
\* an array no Map entry and no call refers to is garbage.
Refs == 1..(Cardinality(Projects) + Cardinality(Calls))

\* A request slot on which no store call runs.
IdleCall ==
    [pc |-> "idle", projectId |-> "", chunks |-> <<>>, metadata |-> [filename |-> ""],
     i |-> 0, projectDocs |-> NoRef, batch |-> <<>>, rivals |-> {}, deleted |-> FALSE,
     before |-> 0, beforeFiles |-> {}]

NoOutcome == [op |-> "none"]

\* No outcome is waiting for its caller.  A settled promise's continuation
\* is a microtask: the caller takes the outcome before the event loop runs
\* the next callback of any request.
Ready == ret = NoOutcome

\* The values the similarity call's variables keep while another component
\* runs.
SimIdle ==
    /\ argA = <<>>
    /\ argB = <<>>
    /\ simOut = [routine |-> "none"]
    /\ simPc = "idle"

\* generateStreamingResponse has not ended.
GenPending == [ended |-> "pending", answeredBy |-> "none"]

\* The values the chat request's variables keep while another component
\* runs.
ChatIdle ==
    /\ hasUserId = FALSE
    /\ openAIKey = FALSE
    /\ sse = <<>>
    /\ genOut = GenPending
    /\ chatPc = "idle"

\* The values the store's variables keep while another component runs.
StoreIdle ==
    /\ vectorStore = "undefined"
    /\ documents = [p \in Projects |-> NoRef]
    /\ heap = [r \in Refs |-> <<>>]
    /\ collection = <<>>
    /\ calls = [c \in Calls |-> IdleCall]
    /\ stores = 0
    /\ ret = NoOutcome

----------------------------------------------------------------------------
(* Small arithmetic helpers.                                               *)

Min(a, b) == IF a < b THEN a ELSE b

Max(a, b) == IF a > b THEN a ELSE b

----------------------------------------------------------------------------
(* JavaScript strings, as sequences of one-character strings.  Index i of  *)
(* the JavaScript string is element i + 1 of the sequence.                 *)

\* The characters of the model: a letter, the space, and a newline (white
\* space that is not a space: trim() removes it, lastIndexOf(' ') skips it).
Chars == {"a", " ", "\n"}

\* Bounds of the chunker's inputs.
MaxTextLen == 6

MaxChunkSize == 5

\* Cap on the iterations of one run (a run that does not terminate is cut).
MaxIter == 8

RECURSIVE StringsUpTo(_)
StringsUpTo(n) ==
    IF n = 0 THEN {<<>>}
    ELSE LET shorter == StringsUpTo(n - 1)
         IN  shorter \cup {Append(s, c) : s \in {t \in shorter : Len(t) = n - 1}, c \in Chars}

\* What String.prototype.trim removes.
IsWhitespace(c) == c \in {" ", "\n"}

\* String.prototype.slice's reading of one index: a negative index counts
\* from the end, and both ends are clamped to [0, len].
SliceIndex(len, k) == IF k < 0 THEN Max(len + k, 0) ELSE Min(k, len)

\* text.slice(from, to)
Slice(s, from, to) ==
    LET f == SliceIndex(Len(s), from)
        t == SliceIndex(Len(s), to)
    IN  IF f < t THEN SubSeq(s, f + 1, t) ELSE <<>>

\* The number of leading white-space characters of s.
LeadingWs(s) ==
    IF \A i \in 1..Len(s) : IsWhitespace(s[i]) THEN Len(s)
    ELSE (CHOOSE i \in 1..Len(s) :
              /\ ~IsWhitespace(s[i])
              /\ \A j \in 1..(i - 1) : IsWhitespace(s[j])) - 1

\* The number of trailing white-space characters of s.
TrailingWs(s) ==
    IF \A i \in 1..Len(s) : IsWhitespace(s[i]) THEN Len(s)
    ELSE Len(s) - (CHOOSE i \in 1..Len(s) :
                       /\ ~IsWhitespace(s[i])
                       /\ \A j \in (i + 1)..Len(s) : IsWhitespace(s[j]))

\* s.trim()
Trim(s) ==
    IF LeadingWs(s) = Len(s) THEN <<>>
    ELSE SubSeq(s, LeadingWs(s) + 1, Len(s) - TrailingWs(s))

\* s.lastIndexOf(ch, position): the greatest index i <= position with
\* s[i] = ch, or -1; the position is clamped to [0, len - 1].
LastIndexOf(s, ch, position) ==
    LET from == Min(Max(position, 0), Len(s) - 1)
        hits == {i \in 0..from : s[i + 1] = ch}
    IN  IF hits = {} THEN -1
        ELSE CHOOSE i \in hits : \A j \in hits : j <= i

----------------------------------------------------------------------------
(* Embedding vectors.  A vector is a sequence of integers; the model keeps *)
(* the length of a vector and its direction, which is all that the cosine  *)
(* similarity of the store reads.                                          *)

\* EMBEDDING_CONFIG.ollama.dimensions (768 unless configured), scaled down.
Dimensions == 2

\* The chunk texts of the model.
Texts == {<<"a">>, <<"b">>}

\* The longest array of chunks one call is given.
MaxChunks == 2

RECURSIVE SeqsUpTo(_, _)
SeqsUpTo(S, n) ==
    IF n = 0 THEN {<<>>}
    ELSE LET shorter == SeqsUpTo(S, n - 1)
         IN  shorter \cup {Append(s, x) : s \in {t \in shorter : Len(t) = n - 1}, x \in S}

\* chunk.charCodeAt(i)
CharCode(c) ==
    CASE c = "a" -> 97
      [] c = "b" -> 98
      [] c = " " -> 32
      [] c = "\n" -> 10

\* The hash of generateMockEmbeddings, lines 471-476: hash * 31 + char for
\* each character.  The 32-bit fold (hash & hash) is the identity on the
\* texts of the model, whose hashes stay below 2^31.
RECURSIVE MockHash(_, _)
MockHash(s, hash) ==
    IF s = <<>> THEN hash
    ELSE MockHash(Tail(s), ((hash * 32) - hash) + CharCode(Head(s)))

\* Component i of the mock vector, lines 480-481.  The source computes
\* (sin(seed) + cos(0.7 * seed)) / 2 with seed = hash + i * 1234567; the
\* model keeps that the component is a function of the seed alone, with a
\* five-valued integer surrogate for the trigonometric expression.
MockComponent(hash, i) == ((hash + i * 1234567) % 5) - 2

\* One vector of generateMockEmbeddings, lines 467-487.  The final division
\* by the magnitude rescales the vector and leaves its direction unchanged.
MockEmbedding(chunk) ==
    [i \in 1..Dimensions |-> MockComponent(MockHash(chunk, 0), i - 1)]

\* generateMockEmbeddings(chunks): one vector per chunk, in order.
GenerateMockEmbeddings(cs) == [k \in 1..Len(cs) |-> MockEmbedding(cs[k])]

\* The vector the provider's model answers with for one chunk: a function
\* of the text, of the length d the model has (response.data.embedding).
ProviderEmbedding(chunk, d) ==
    [i \in 1..d |-> IF i = 1 /\ Len(chunk) > 0 THEN CharCode(chunk[1]) - 96 ELSE 1]

----------------------------------------------------------------------------
(* generateEmbeddings(input): part_000:321-345, with                       *)
(* generateOllamaEmbeddings (350-400), checkOllamaModel (405-434) and      *)
(* generateOpenAIEmbeddings (439-459).  One step runs the call from one    *)
(* await to the next.                                                      *)

Providers == {"ollama", "openai", "mock"}

\* The ways the request of the model-catalog probe fails (line 409).
TagsFailures == {"ECONNREFUSED", "timeout"}

\* EMBEDDING_CONFIG.ollama.model, and the model names a service
\* advertises: the configured name, the name with a tag after it, and a
\* name the configured one begins with.
ModelName == <<"n", "e">>

AdvertisedNames == {<<"n", "e">>, <<"n", "e", ":">>, <<"n">>}

\* response.data.models || [], as the set of its names.
Catalogs == SUBSET AdvertisedNames

\* name.startsWith(prefix)
StartsWith(name, prefix) ==
    Len(name) >= Len(prefix) /\ SubSeq(name, 1, Len(prefix)) = prefix

\* A probe that accepts whatever the service advertises.
ModelExistsAlways(availableModels, modelName) == TRUE

\* modelExists, lines 414-416.
ModelExists(availableModels, modelName) ==
    \E name \in availableModels : name = modelName \/ StartsWith(name, modelName)

\* The message of the error generateOllamaEmbeddings throws for a cause:
\* the throw of lines 420-423 passes the catch blocks of lines 428-433 and
\* 387-398 as it is, ECONNREFUSED and a 404 get the messages of lines 391
\* (430) and 395, any other error keeps its own.
OllamaError(cause) ==
    CASE cause = "model not found" ->
             "Model <model> not found. Available models: <names>. Please run: ollama pull <model>"
      [] cause = "404" ->
             "Model <model> not found. Please run: ollama pull <model>"
      [] cause = "ECONNREFUSED" ->
             "Ollama service is not running at <baseUrl>"
      [] OTHER -> cause

\* The ways one POST /api/embeddings fails.
PostFailures == {"ECONNREFUSED", "timeout", "404", "invalid response"}

\* The ways the hosted API request fails.
OpenAIFailures == {"request failed", "malformed response"}

\* A return that hands the array over whatever the input was.
ArityKeep(isArray, vectors) == vectors

\* isArray ? embeddings : embeddings[0]  (lines 331, 334, 337, 343)
Arity(isArray, vectors) ==
    IF isArray THEN vectors
    ELSE IF Len(vectors) > 0 THEN vectors[1] ELSE "undefined"

\* A catch block that lets the provider's error through.
OnProviderErrorRethrow(inp) == [pc |-> "threw", value |-> "none"]

\* The catch block of generateEmbeddings, lines 339-344: what the call
\* returns once a provider has thrown.
OnProviderError(inp) ==
    [pc |-> "returned", value |-> Arity(inp.isArray, GenerateMockEmbeddings(inp.chunks))]

\* Which provider the switch of lines 328-338 tries first under a
\* configured provider name.
FirstAttempt(p) ==
    CASE p = "ollama" -> "ollama"
      [] p = "openai" -> "openai"
      [] OTHER -> "mock"

\* The entries of the call's history.
Request(to) == [ev |-> "request", who |-> to, why |-> ""]

Failure(who, why) == [ev |-> "fail", who |-> who, why |-> why]

Pacing == [ev |-> "delay", who |-> "ollama", why |-> ""]

Fallback == [ev |-> "mock", who |-> "mock", why |-> ""]

EmbedInputs ==
    {[isArray |-> FALSE, chunks |-> <<t>>] : t \in Texts}
        \cup {[isArray |-> TRUE, chunks |-> cs] : cs \in SeqsUpTo(Texts, MaxChunks)}

\* The store calls that embed: the loop of storeInMemoryEmbeddings (lines
\* 177-180) and of storeChromaEmbeddings (124-126) is at its first chunk.
Ingestions ==
    {[chunks |-> cs, i |-> 0] : cs \in SeqsUpTo(Texts, MaxChunks) \ {<<>>}}

\* generateEmbeddings(chunk) as the loop calls it, for chunk i (0-based):
\* the argument is one string.
LoopCall(ing) == [isArray |-> FALSE, chunks |-> <<ing.chunks[ing.i + 1]>>]

EmbedInit ==
    /\ SplitIdle
    /\ StoreIdle
    /\ ChatIdle
    /\ SimIdle
    /\ providerDim \in {Dimensions, Dimensions + 1}
    /\ clock = 0
    /\ provider \in Providers
    /\ apiKey \in BOOLEAN
    /\ \/ /\ ingestion = NoIngestion
          /\ input \in EmbedInputs
       \/ /\ ingestion \in Ingestions
          /\ input = LoopCall(ingestion)
    /\ trace = <<>>
    /\ catalog = NoCatalog
    /\ embeddings = <<>>
    /\ result = "none"
    /\ log = <<>>
    /\ embedPc = "start"

\* The call ends by returning v.
EmbedReturn(v, events) ==
    /\ result' = v
    /\ log' = log \o events
    /\ embedPc' = "returned"

\* A provider threw: the catch block of lines 339-344 runs.
EmbedCatch(events) ==
    /\ result' = OnProviderError(input).value
    /\ log' = log \o events \o <<Fallback>>
    /\ embedPc' = OnProviderError(input).pc

\* case 'ollama': generateOllamaEmbeddings starts and awaits the probe.
EmbedBeginOllama ==
    /\ embedPc = "start"
    /\ FirstAttempt(provider) = "ollama"
    /\ embedPc' = "tags"
    /\ log' = Append(log, Request("ollama tags"))
    /\ UNCHANGED <<catalog, ingestion, trace, provider, apiKey, input, embeddings, result>>
    /\ UNCHANGED <<splitVars, envVars, storeVars, simVars, chatVars>>

\* case 'openai' with a credential: the batched request is sent.
EmbedBeginOpenAI ==
    /\ embedPc = "start"
    /\ FirstAttempt(provider) = "openai"
    /\ apiKey
    /\ embedPc' = "openai"
    /\ log' = Append(log, Request("openai"))
    /\ UNCHANGED <<catalog, ingestion, trace, provider, apiKey, input, embeddings, result>>
    /\ UNCHANGED <<splitVars, envVars, storeVars, simVars, chatVars>>

\* case 'openai' without a credential: line 441 throws.
EmbedBeginOpenAINoKey ==
    /\ embedPc = "start"
    /\ FirstAttempt(provider) = "openai"
    /\ ~apiKey
    /\ EmbedCatch(<<Failure("openai", "API key not found")>>)
    /\ UNCHANGED <<catalog, ingestion, trace, provider, apiKey, input, embeddings>>
    /\ UNCHANGED <<splitVars, envVars, storeVars, simVars, chatVars>>

\* default: the mock embeddings are the configured provider.
EmbedBeginMock ==
    /\ embedPc = "start"
    /\ FirstAttempt(provider) = "mock"
    /\ EmbedReturn(Arity(input.isArray, GenerateMockEmbeddings(input.chunks)), <<Fallback>>)
    /\ UNCHANGED <<catalog, ingestion, trace, provider, apiKey, input, embeddings>>
    /\ UNCHANGED <<splitVars, envVars, storeVars, simVars, chatVars>>

\* What generateOllamaEmbeddings does once the loop is at chunk k + 1 of
\* the array, with vs collected: request the next chunk, or return.
OllamaContinue(vs) ==
    IF Len(vs) < Len(input.chunks)
    THEN /\ embedPc' = "post"
         /\ log' = Append(log, Request("ollama embeddings"))
         /\ result' = result
    ELSE EmbedReturn(Arity(input.isArray, vs), <<>>)

\* checkOllamaModel found the model: the loop of line 362 starts.
OllamaTagsOk ==
    /\ embedPc = "tags"
    /\ \E models \in Catalogs :
           /\ ModelExists(models, ModelName)
           /\ catalog' = [answered |-> TRUE, models |-> models]
    /\ embeddings' = <<>>
    /\ OllamaContinue(<<>>)
    /\ UNCHANGED <<ingestion, trace, provider, apiKey, input>>
    /\ UNCHANGED <<splitVars, envVars, storeVars, simVars, chatVars>>

\* The probe answered and the model is not advertised: lines 418-424.
OllamaTagsNoModel ==
    /\ embedPc = "tags"
    /\ \E models \in Catalogs :
           /\ ~ModelExists(models, ModelName)
           /\ catalog' = [answered |-> TRUE, models |-> models]
    /\ EmbedCatch(<<Failure("ollama", "model not found")>>)
    /\ UNCHANGED <<ingestion, trace, provider, apiKey, input, embeddings>>
    /\ UNCHANGED <<splitVars, envVars, storeVars, simVars, chatVars>>

\* The request of the probe failed (service down, timeout).
OllamaTagsFail ==
    /\ embedPc = "tags"
    /\ \E why \in TagsFailures :
           EmbedCatch(<<Failure("ollama", why)>>)
    /\ UNCHANGED <<catalog, ingestion, trace, provider, apiKey, input, embeddings>>
    /\ UNCHANGED <<splitVars, envVars, storeVars, simVars, chatVars>>

\* One POST /api/embeddings answered with an embedding: lines 373-382.
OllamaPostOk ==
    /\ embedPc = "post"
    /\ LET v == ProviderEmbedding(input.chunks[Len(embeddings) + 1], providerDim)
       IN  /\ embeddings' = Append(embeddings, v)
           /\ IF Len(input.chunks) > 1
              THEN /\ embedPc' = "delay"
                   /\ log' = Append(log, Pacing)
                   /\ result' = result
              ELSE OllamaContinue(Append(embeddings, v))
    /\ UNCHANGED <<catalog, ingestion, trace, provider, apiKey, input>>
    /\ UNCHANGED <<splitVars, envVars, storeVars, simVars, chatVars>>

\* One POST /api/embeddings failed, or answered without an embedding.
OllamaPostFail ==
    /\ embedPc = "post"
    /\ \E why \in PostFailures :
           EmbedCatch(<<Failure("ollama", why)>>)
    /\ UNCHANGED <<catalog, ingestion, trace, provider, apiKey, input, embeddings>>
    /\ UNCHANGED <<splitVars, envVars, storeVars, simVars, chatVars>>

\* The 100 ms pacing delay of line 381 elapsed.
OllamaDelayDone ==
    /\ embedPc = "delay"
    /\ OllamaContinue(embeddings)
    /\ UNCHANGED <<catalog, ingestion, trace, provider, apiKey, input, embeddings>>
    /\ UNCHANGED <<splitVars, envVars, storeVars, simVars, chatVars>>

\* The hosted API answered: line 458 maps the items to their embeddings.
OpenAIOk ==
    /\ embedPc = "openai"
    /\ EmbedReturn(Arity(input.isArray,
                         [k \in 1..Len(input.chunks) |->
                              ProviderEmbedding(input.chunks[k], providerDim)]), <<>>)
    /\ UNCHANGED <<catalog, ingestion, trace, provider, apiKey, input, embeddings>>
    /\ UNCHANGED <<splitVars, envVars, storeVars, simVars, chatVars>>

\* The hosted API request failed.
OpenAIFail ==
    /\ embedPc = "openai"
    /\ \E why \in OpenAIFailures :
           EmbedCatch(<<Failure("openai", why)>>)
    /\ UNCHANGED <<catalog, ingestion, trace, provider, apiKey, input, embeddings>>
    /\ UNCHANGED <<splitVars, envVars, storeVars, simVars, chatVars>>

\* The loop of the store call records the embedding that was returned and
\* calls generateEmbeddings for its next chunk.
IngestNextChunk ==
    /\ embedPc = "returned"
    /\ ingestion.i + 1 < Len(ingestion.chunks)
    /\ ingestion' = [ingestion EXCEPT !.i = @ + 1]
    /\ input' = LoopCall(ingestion')
    /\ trace' = trace \o log
    /\ log' = <<>>
    /\ catalog' = NoCatalog
    /\ embeddings' = <<>>
    /\ result' = "none"
    /\ embedPc' = "start"
    /\ UNCHANGED <<provider, apiKey>>
    /\ UNCHANGED <<splitVars, envVars, storeVars, simVars, chatVars>>

EmbedNext ==
    \/ EmbedBeginOllama
    \/ EmbedBeginOpenAI
    \/ EmbedBeginOpenAINoKey
    \/ EmbedBeginMock
    \/ OllamaTagsOk
    \/ OllamaTagsNoModel
    \/ OllamaTagsFail
    \/ OllamaPostOk
    \/ OllamaPostFail
    \/ OllamaDelayDone
    \/ OpenAIOk
    \/ OpenAIFail
    \/ IngestNextChunk

SpecEmbed == EmbedInit /\ [][EmbedNext]_vars

----------------------------------------------------------------------------
(* The vector store: vectorStore.js.                                       *)

\* How many store calls one behaviour begins.
MaxStores == 2

\* The last value of the clock.
MaxClock == 1

\* The largest topK a search is given.
MaxTopK == 2

\* MAX_CONTEXT_CHUNKS, the topK of retrieveSchemaContext.
MaxContextChunks == 5

\* The sharedMetadata objects a caller passes: the upload's own, and one
\* that also carries keys the store assigns, projectId and chunkIndex.
SharedMetadatas ==
    { [filename |-> "A.sql"],
      [filename |-> "B.sql", projectId |-> "p2", chunkIndex |-> 7] }

\* { ...a, ...b }: the keys of both, b's value where both have the key.
MergeObjects(a, b) ==
    [k \in (DOMAIN a) \cup (DOMAIN b) |-> IF k \in DOMAIN b THEN b[k] ELSE a[k]]

\* The metadata of one stored document: lines 130-135 and 187-192.
DocumentMetadata(p, i, now, md) ==
    MergeObjects([projectId |-> p, chunkIndex |-> i, timestamp |-> now], md)

\* The document built for chunk i (0-based) of a store call: lines 183-193
\* (in memory) and 128-136 (the parallel arrays of the ChromaDB batch).
\* The id `${projectId}_${i}_${Date.now()}` is kept as a triple.
StoredDocument(p, i, chunk, embedding, md, now) ==
    [id |-> <<p, i, now>>,
     text |-> chunk,
     embedding |-> embedding,
     metadata |-> DocumentMetadata(p, i, now, md)]

\* What generateEmbeddings(chunk) may return for a string: the provider's
\* vector, or the mock vector when the provider failed or none is configured.
GenerateEmbeddingsResults(chunk) ==
    {ProviderEmbedding(chunk, providerDim), MockEmbedding(chunk)}

\* The texts a question is made of.
QueryTexts == Texts

\* The query of a chat request: req.body.input is any truthy JSON value;
\* "object" stands for one with a length and no charCodeAt ({"length": 1}),
\* on which generateMockEmbeddings throws.
Queries ==
    {[kind |-> "string", text |-> t] : t \in QueryTexts}
        \cup {[kind |-> "object", text |-> <<>>]}

\* The outcomes of generateEmbeddings(query) in retrieveSchemaContext.
QueryEmbeddingOutcomes(q) ==
    IF q.kind = "string"
    THEN {[threw |-> FALSE, value |-> v] : v \in GenerateEmbeddingsResults(q.text)}
    ELSE {[threw |-> TRUE, value |-> <<>>]}

\* The query vectors a search is given.
QueryVectors ==
    UNION {GenerateEmbeddingsResults(t) : t \in QueryTexts}

\* ---- cosine similarity: lines 286-309 ----

RECURSIVE DotUpTo(_, _, _)
DotUpTo(a, b, n) == IF n = 0 THEN 0 ELSE DotUpTo(a, b, n - 1) + a[n] * b[n]

\* The loop of lines 295-299 for one pair of vectors of equal length.
DotProduct(a, b) == DotUpTo(a, b, Len(a))

\* A cosineSimilarity that compares whatever it is given.
CosineSimilarityUnchecked(vecA, vecB) == [threw |-> FALSE, num |-> 0, den2 |-> 1]

\* cosineSimilarity(vecA, vecB).  The quotient dotProduct / (normA * normB)
\* is kept exactly, as num / sqrt(den2); a zero norm gives 0.
CosineSimilarity(vecA, vecB) ==
    IF Len(vecA) # Len(vecB) THEN [threw |-> TRUE, num |-> 0, den2 |-> 1]
    ELSE LET dot == DotProduct(vecA, vecB)
             normA2 == DotProduct(vecA, vecA)
             normB2 == DotProduct(vecB, vecB)
         IN  IF normA2 = 0 \/ normB2 = 0
             THEN [threw |-> FALSE, num |-> 0, den2 |-> 1]
             ELSE [threw |-> FALSE, num |-> dot, den2 |-> normA2 * normB2]

\* x * |x|: increasing in x, so it compares like x.
SignedSquare(x) == IF x < 0 THEN 0 - (x * x) ELSE x * x

\* s < t for two similarities num / sqrt(den2).
SimLess(s, t) == SignedSquare(s.num) * t.den2 < SignedSquare(t.num) * s.den2

\* A comparator that ranks the least similar first.
RanksBeforeAscending(x, e) == SimLess(x.similarity, e.similarity)

\* The comparator of line 273, (a, b) => b.similarity - a.similarity:
\* x goes before e when the difference is negative for (x, e).
RanksBefore(x, e) == SimLess(e.similarity, x.similarity)

\* Array.prototype.sort is stable: x is placed before the first element it
\* ranks before, after every element it ties with.
InsertRanked(sorted, x) ==
    LET before == {k \in 1..Len(sorted) : RanksBefore(x, sorted[k])}
        at == IF before = {} THEN Len(sorted) + 1
              ELSE CHOOSE k \in before : \A j \in before : k <= j
    IN  SubSeq(sorted, 1, at - 1) \o <<x>> \o SubSeq(sorted, at, Len(sorted))

RECURSIVE SortUpTo(_, _)
SortUpTo(seq, n) == IF n = 0 THEN <<>> ELSE InsertRanked(SortUpTo(seq, n - 1), seq[n])

\* similarities.sort(...): line 273.
SortBySimilarity(seq) == SortUpTo(seq, Len(seq))

\* One entry of a search result: lines 275-280 and 243-248.
SearchResult(doc, sim) ==
    [text |-> doc.text, similarity |-> sim, metadata |-> doc.metadata, id |-> doc.id]

\* The documents with their similarity to the query: lines 266-269.
WithSimilarity(docs, queryEmbedding) ==
    [k \in 1..Len(docs) |->
         SearchResult(docs[k], CosineSimilarity(queryEmbedding, docs[k].embedding))]

\* searchInMemoryChunks over the partition docs: lines 258-281.  It throws
\* when cosineSimilarity throws for one of the documents.
SearchInMemoryChunks(docs, queryEmbedding, topK) ==
    IF Len(docs) = 0 THEN [threw |-> FALSE, results |-> <<>>]
    ELSE IF \E k \in 1..Len(docs) : CosineSimilarity(queryEmbedding, docs[k].embedding).threw
    THEN [threw |-> TRUE, results |-> <<>>]
    ELSE [threw |-> FALSE,
          results |-> Slice(SortBySimilarity(WithSimilarity(docs, queryEmbedding)), 0, topK)]

\* The where-filter of the remote index: { projectId: projectId } selects the
\* records whose metadata has that projectId (lines 235, 360).
WhereProjectId(records, p) ==
    SelectSeq(records, LAMBDA d : d.metadata.projectId = p)

\* searchChromaChunks: lines 229-253.  The remote index answers with the
\* nResults nearest records that pass the filter; the model ranks by the
\* cosine distance, so that 1 - distance is the cosine similarity.  The
\* query fails when the service is down (ok = FALSE) or when the query's
\* length differs from a record's.
SearchChromaChunks(records, p, queryEmbedding, topK, ok) ==
    LET hits == WhereProjectId(records, p)
    IN  IF ~ok \/ \E k \in 1..Len(hits) :
                     CosineSimilarity(queryEmbedding, hits[k].embedding).threw
        THEN [threw |-> TRUE, results |-> <<>>]
        ELSE [threw |-> FALSE,
              results |-> Slice(SortBySimilarity(WithSimilarity(hits, queryEmbedding)), 0, topK)]

\* The catch block of searchSimilarChunks, lines 220-223.
OnSearchError == <<>>

\* searchSimilarChunks's return value, given what the backend's search did
\* (inner.threw also when the store handle is undefined): lines 208-223.
SearchSimilarChunks(inner) == IF inner.threw THEN OnSearchError ELSE inner.results

\* A searchSimilarChunks whose catch block lets the error through.
SearchOutcomeRethrow(inner) == [threw |-> inner.threw, value |-> inner.results]

\* What the caller of searchSimilarChunks gets: the try block returns, the
\* catch block returns, and nothing is thrown (lines 208-223).
SearchOutcome(inner) == [threw |-> FALSE, value |-> SearchSimilarChunks(inner)]

\* The array of project p, or the empty array when the Map has no entry
\* (vectorStore.documents.get(projectId) || []).
Partition(docsMap, arrays, p) ==
    IF docsMap[p] = NoRef THEN <<>> ELSE arrays[docsMap[p]]

\* The references some Map entry or some call in flight holds.
Reachable(docsMap, cs) ==
    {docsMap[p] : p \in Projects} \cup {cs[c].projectDocs : c \in Calls}

\* The arrays after garbage collection: an unreachable array is gone.
Collect(arrays, docsMap, cs) ==
    [r \in Refs |-> IF r \in Reachable(docsMap, cs) THEN arrays[r] ELSE <<>>]

\* A fresh array: new references are handed out smallest first.
FreshRef(docsMap, cs) ==
    CHOOSE r \in Refs \ Reachable(docsMap, cs) :
        \A q \in Refs \ Reachable(docsMap, cs) : r <= q

\* An assignment in place of the push.
PushReplace(docs, doc) == <<doc>>

\* projectDocs.push(doc), line 183; embeddings.push and its parallel
\* arrays, lines 128-136.
Push(docs, doc) == Append(docs, doc)

\* An array that is left as it is.
ClearArrayKeep(docs) == docs

\* projectDocs.length = 0: line 174.
ClearArray(docs) == <<>>

\* What a search on project p ranges over: the project's array in memory,
\* the records that pass the filter in the remote index.
Stored(p) ==
    CASE vectorStore = "memory" -> Partition(documents, heap, p)
      [] vectorStore = "chroma" -> WhereProjectId(collection, p)
      [] OTHER -> <<>>

\* The store calls in flight on project p, other than call c.
OthersOn(p, c) == {d \in Calls \ {c} : calls[d].pc # "idle" /\ calls[d].projectId = p}

\* JavaScript values a caller is handed: undefined, or a number.
JsUndefined == [type |-> "undefined"]

JsNumber(n) == [type |-> "number", value |-> n]

\* What storeSchemaEmbeddings resolves to when it does not throw: the
\* function has no return statement (lines 94-110).
StoreReturnValue(call) == JsUndefined

\* chunksStored as POST /upload-schema records and reports it:
\* index.js:216-232 and 248.
ChunksStored(storedCount) == storedCount

\* The outcome of a store call.
StoreOutcome(c, call, ok) ==
    [op |-> "store", call |-> c, backend |-> vectorStore, ok |-> ok,
     projectId |-> call.projectId, chunks |-> call.chunks, metadata |-> call.metadata,
     rivals |-> call.rivals, deleted |-> call.deleted,
     before |-> call.before, beforeFiles |-> call.beforeFiles,
     returned |-> StoreReturnValue(call),
     chunksStored |-> ChunksStored(StoreReturnValue(call))]

(* One call of cosineSimilarity, of vectorStore.js or of embed.js.         *)

\* The longest vector a similarity call is given, and its components.
MaxVecLen == 2

Components == {0 - 1, 0, 1}

\* cosineSimilarity of embed.js, part_000:493-509: the same length test and
\* loop, then dotProduct / (sqrt(normA) * sqrt(normB)) with no test of the
\* norms: a zero norm gives 0 / 0, which is NaN.
EmbedCosineSimilarity(vecA, vecB) ==
    IF Len(vecA) # Len(vecB) THEN [threw |-> TRUE, nan |-> FALSE, num |-> 0, den2 |-> 1]
    ELSE LET dot == DotProduct(vecA, vecB)
             normA2 == DotProduct(vecA, vecA)
             normB2 == DotProduct(vecB, vecB)
         IN  [threw |-> FALSE, nan |-> (normA2 * normB2 = 0),
              num |-> dot, den2 |-> normA2 * normB2]

SimInit ==
    /\ SplitIdle
    /\ EmbedIdle
    /\ StoreIdle
    /\ ChatIdle
    /\ providerDim = Dimensions
    /\ clock = 0
    /\ argA \in SeqsUpTo(Components, MaxVecLen)
    /\ argB \in SeqsUpTo(Components, MaxVecLen)
    /\ simOut = [routine |-> "none"]
    /\ simPc = "call"

\* cosineSimilarity(vecA, vecB) of vectorStore.js runs.
StoreSimilarity ==
    /\ simPc = "call"
    /\ simOut' = [routine |-> "vectorStore", out |-> CosineSimilarity(argA, argB)]
    /\ simPc' = "done"
    /\ UNCHANGED <<argA, argB>>
    /\ UNCHANGED <<splitVars, embedVars, envVars, storeVars, chatVars>>

\* cosineSimilarity(vecA, vecB) of embed.js runs.
EmbedSimilarity ==
    /\ simPc = "call"
    /\ simOut' = [routine |-> "embed", out |-> EmbedCosineSimilarity(argA, argB)]
    /\ simPc' = "done"
    /\ UNCHANGED <<argA, argB>>
    /\ UNCHANGED <<splitVars, embedVars, envVars, storeVars, chatVars>>

SimNext == StoreSimilarity \/ EmbedSimilarity

SpecSim == SimInit /\ [][SimNext]_vars

(* Initialization: initializeVectorStore, lines 19-70, and                 *)
(* initializeInMemoryStore, lines 75-85.                                   *)

Init ==
    /\ SplitIdle
    /\ EmbedIdle
    /\ StoreIdle
    /\ ChatIdle
    /\ SimIdle
    /\ providerDim \in {Dimensions, Dimensions + 1}
    /\ clock = 0

\* A catch block that lets the error through, to the startup code that
\* exits the process (index.js:70-73).
OnInitializeErrorRethrow == "threw"

\* The catch block of lines 65-69: return initializeInMemoryStore().
OnInitializeError == "memory"

\* What initializeVectorStore returns: the ChromaDB store when
\* getCollection succeeded (lines 46-50) or else createCollection did
\* (lines 51-61), the catch block's value when both failed.
InitializeResult(getOk, createOk) ==
    IF getOk \/ createOk THEN "chroma" ELSE OnInitializeError

\* The outcome of initializeVectorStore: what was attempted, what came back.
InitializeOutcome(getOk, createOk) ==
    [op |-> "init",
     getCollection |-> IF getOk THEN "ok" ELSE "failed",
     createCollection |-> IF getOk THEN "skipped"
                          ELSE IF createOk THEN "ok" ELSE "failed",
     threw |-> InitializeResult(getOk, createOk) = "threw",
     returned |-> InitializeResult(getOk, createOk)]

\* The collection was found or created: line 63.
InitializeChroma ==
    /\ Ready
    /\ vectorStore = "undefined"
    /\ vectorStore' = "chroma"
    /\ \E getOk \in BOOLEAN : ret' = InitializeOutcome(getOk, TRUE)
    /\ UNCHANGED <<documents, heap, collection, calls, stores>>
    /\ UNCHANGED <<splitVars, embedVars, envVars, simVars, chatVars>>

\* Connecting or creating the collection failed: lines 65-68, 75-85.
InitializeInMemory ==
    /\ Ready
    /\ vectorStore = "undefined"
    /\ vectorStore' = IF InitializeResult(FALSE, FALSE) = "threw"
                      THEN vectorStore
                      ELSE InitializeResult(FALSE, FALSE)
    /\ documents' = [p \in Projects |-> NoRef]
    /\ ret' = InitializeOutcome(FALSE, FALSE)
    /\ UNCHANGED <<heap, collection, calls, stores>>
    /\ UNCHANGED <<splitVars, embedVars, envVars, simVars, chatVars>>

\* Time passes.
Tick ==
    /\ Ready
    /\ clock < MaxClock
    /\ clock' = clock + 1
    /\ ret' = NoOutcome
    /\ UNCHANGED <<vectorStore, documents, heap, collection, calls, stores>>
    /\ UNCHANGED <<splitVars, embedVars, providerDim, simVars, chatVars>>

(* storeSchemaEmbeddings: lines 94-110, with storeInMemoryEmbeddings       *)
(* (166-195) and storeChromaEmbeddings (115-161).  A call runs from one    *)
(* await to the next in one step.                                          *)

\* A request runs on the first slot that is free.
FreeSlot(c) ==
    /\ calls[c].pc = "idle"
    /\ \A d \in Calls : calls[d].pc = "idle" => c <= d

\* The files a sequence of documents came from: the filename that POST
\* /upload-schema passes as metadata (index.js:216-221).
FilesOf(docs) == {docs[k].metadata.filename : k \in 1..Len(docs)}

\* The record of a call that has just begun on project p; before and
\* beforeFiles are what the project held then.
BegunCall(c, p, cs, md, ref) ==
    [pc |-> IF Len(cs) > 0 THEN "embed" ELSE "add",
     projectId |-> p, chunks |-> cs, metadata |-> md, i |-> 0,
     projectDocs |-> ref, batch |-> <<>>,
     rivals |-> {calls[d].chunks : d \in OthersOn(p, c)}, deleted |-> FALSE,
     before |-> Len(Stored(p)), beforeFiles |-> FilesOf(Stored(p))]

\* The calls in flight, once they have seen call c begin on project p.
SeenBegin(c, p, cs) ==
    [d \in Calls |->
         IF d \in OthersOn(p, c)
         THEN [calls[d] EXCEPT !.rivals = @ \cup {cs}]
         ELSE calls[d]]

\* The store handle is still undefined: vectorStore.isInMemory throws and
\* the catch of lines 106-109 rethrows.
StoreUninitialized(c, p, cs, md) ==
    /\ Ready
    /\ FreeSlot(c)
    /\ stores < MaxStores
    /\ vectorStore = "undefined"
    /\ stores' = stores + 1
    /\ ret' = StoreOutcome(c, BegunCall(c, p, cs, md, NoRef), FALSE)
    /\ UNCHANGED <<vectorStore, documents, heap, collection, calls>>
    /\ UNCHANGED <<splitVars, embedVars, envVars, simVars, chatVars>>

\* storeInMemoryEmbeddings up to its first await: lines 167-179.  With no
\* chunk the loop is empty and the call completes.
StoreInMemoryBegin(c, p, cs, md) ==
    /\ Ready
    /\ FreeSlot(c)
    /\ stores < MaxStores
    /\ vectorStore = "memory"
    /\ stores' = stores + 1
    /\ LET ref == IF documents[p] = NoRef THEN FreshRef(documents, calls) ELSE documents[p]
           begun == BegunCall(c, p, cs, md, ref)
       IN  /\ documents' = [documents EXCEPT ![p] = ref]
           /\ heap' = [heap EXCEPT ![ref] = ClearArray(heap[ref])]
           /\ IF Len(cs) > 0
              THEN /\ calls' = [SeenBegin(c, p, cs) EXCEPT ![c] = begun]
                   /\ ret' = NoOutcome
              ELSE /\ calls' = SeenBegin(c, p, cs)
                   /\ ret' = StoreOutcome(c, begun, TRUE)
    /\ UNCHANGED <<vectorStore, collection>>
    /\ UNCHANGED <<splitVars, embedVars, envVars, simVars, chatVars>>

\* generateEmbeddings returned for chunk i: lines 179-194, then the next
\* iteration up to its await, or the end of the call.
InMemoryEmbedded(c) ==
    /\ Ready
    /\ calls[c].pc = "embed"
    /\ vectorStore = "memory"
    /\ LET call == calls[c]
           chunk == call.chunks[call.i + 1]
       IN  \E embedding \in GenerateEmbeddingsResults(chunk) :
               LET doc == StoredDocument(call.projectId, call.i, chunk, embedding,
                                         call.metadata, clock)
                   pushed == [heap EXCEPT ![call.projectDocs] = Push(@, doc)]
                   after == IF call.i + 1 < Len(call.chunks)
                            THEN [calls EXCEPT ![c].i = @ + 1]
                            ELSE [calls EXCEPT ![c] = IdleCall]
               IN  /\ calls' = after
                   /\ heap' = Collect(pushed, documents, after)
                   /\ ret' = IF call.i + 1 < Len(call.chunks)
                             THEN NoOutcome
                             ELSE StoreOutcome(c, call, TRUE)
    /\ UNCHANGED <<vectorStore, documents, collection, stores>>
    /\ UNCHANGED <<splitVars, embedVars, envVars, simVars, chatVars>>

\* storeChromaEmbeddings up to its first await: lines 116-126.
StoreChromaBegin(c, p, cs, md) ==
    /\ Ready
    /\ FreeSlot(c)
    /\ stores < MaxStores
    /\ vectorStore = "chroma"
    /\ stores' = stores + 1
    /\ calls' = [SeenBegin(c, p, cs) EXCEPT ![c] = BegunCall(c, p, cs, md, NoRef)]
    /\ ret' = NoOutcome
    /\ UNCHANGED <<vectorStore, documents, heap, collection>>
    /\ UNCHANGED <<splitVars, embedVars, envVars, simVars, chatVars>>

\* generateEmbeddings returned for chunk i: lines 126-137.
ChromaEmbedded(c) ==
    /\ Ready
    /\ calls[c].pc = "embed"
    /\ vectorStore = "chroma"
    /\ LET call == calls[c]
           chunk == call.chunks[call.i + 1]
       IN  \E embedding \in GenerateEmbeddingsResults(chunk) :
               LET doc == StoredDocument(call.projectId, call.i, chunk, embedding,
                                         call.metadata, clock)
               IN  calls' = [calls EXCEPT
                                 ![c].batch = Push(@, doc),
                                 ![c].i = @ + 1,
                                 ![c].pc = IF call.i + 1 < Len(call.chunks)
                                           THEN "embed" ELSE "add"]
    /\ ret' = NoOutcome
    /\ UNCHANGED <<vectorStore, documents, heap, collection, stores>>
    /\ UNCHANGED <<splitVars, embedVars, envVars, simVars, chatVars>>

\* collection.add and collection.count succeeded: lines 143-149.
ChromaAddOk(c) ==
    /\ Ready
    /\ calls[c].pc = "add"
    /\ collection' = collection \o calls[c].batch
    /\ calls' = [calls EXCEPT ![c] = IdleCall]
    /\ ret' = StoreOutcome(c, calls[c], TRUE)
    /\ UNCHANGED <<vectorStore, documents, heap, stores>>
    /\ UNCHANGED <<splitVars, embedVars, envVars, simVars, chatVars>>

\* collection.add failed: the call throws and nothing was added.
ChromaAddFail(c) ==
    /\ Ready
    /\ calls[c].pc = "add"
    /\ calls' = [calls EXCEPT ![c] = IdleCall]
    /\ ret' = StoreOutcome(c, calls[c], FALSE)
    /\ UNCHANGED <<vectorStore, documents, heap, collection, stores>>
    /\ UNCHANGED <<splitVars, embedVars, envVars, simVars, chatVars>>

\* collection.add succeeded and collection.count failed: the call throws
\* after the records were added (line 149).
ChromaCountFail(c) ==
    /\ Ready
    /\ calls[c].pc = "add"
    /\ collection' = collection \o calls[c].batch
    /\ calls' = [calls EXCEPT ![c] = IdleCall]
    /\ ret' = StoreOutcome(c, calls[c], FALSE)
    /\ UNCHANGED <<vectorStore, documents, heap, stores>>
    /\ UNCHANGED <<splitVars, embedVars, envVars, simVars, chatVars>>

(* deleteProjectEmbeddings: lines 351-370.                                 *)

\* The outcome of a deleteProjectEmbeddings call; before is how many
\* documents the project held.
DeleteOutcome(p, ok) ==
    [op |-> "delete", backend |-> vectorStore, projectId |-> p, ok |-> ok,
     before |-> Len(Stored(p))]

\* A delete that leaves the Map as it is.
MapDeleteKeep(docsMap, p) == docsMap

\* vectorStore.documents.delete(projectId): line 356.
MapDelete(docsMap, p) == [docsMap EXCEPT ![p] = NoRef]

\* The store handle is undefined: the call throws.
DeleteUninitialized(p) ==
    /\ Ready
    /\ vectorStore = "undefined"
    /\ ret' = DeleteOutcome(p, FALSE)
    /\ UNCHANGED <<vectorStore, documents, heap, collection, calls, stores>>
    /\ UNCHANGED <<splitVars, embedVars, envVars, simVars, chatVars>>

\* vectorStore.documents.delete(projectId): line 356.  A store call in
\* flight on the project keeps its reference to the array.
DeleteInMemory(p) ==
    /\ Ready
    /\ vectorStore = "memory"
    /\ LET docsMap == MapDelete(documents, p)
           seen == [d \in Calls |->
                        IF calls[d].pc # "idle" /\ calls[d].projectId = p
                        THEN [calls[d] EXCEPT !.deleted = TRUE]
                        ELSE calls[d]]
       IN  /\ documents' = docsMap
           /\ calls' = seen
           /\ heap' = Collect(heap, docsMap, seen)
    /\ ret' = DeleteOutcome(p, TRUE)
    /\ UNCHANGED <<vectorStore, collection, stores>>
    /\ UNCHANGED <<splitVars, embedVars, envVars, simVars, chatVars>>

\* collection.delete({ where: { projectId } }) succeeded: lines 359-361.
DeleteChromaOk(p) ==
    /\ Ready
    /\ vectorStore = "chroma"
    /\ collection' = SelectSeq(collection, LAMBDA d : d.metadata.projectId # p)
    /\ ret' = DeleteOutcome(p, TRUE)
    /\ UNCHANGED <<vectorStore, documents, heap, calls, stores>>
    /\ UNCHANGED <<splitVars, embedVars, envVars, simVars, chatVars>>

\* collection.delete failed: the call throws (lines 366-369).
DeleteChromaFail(p) ==
    /\ Ready
    /\ vectorStore = "chroma"
    /\ ret' = DeleteOutcome(p, FALSE)
    /\ UNCHANGED <<vectorStore, documents, heap, collection, calls, stores>>
    /\ UNCHANGED <<splitVars, embedVars, envVars, simVars, chatVars>>

(* searchSimilarChunks: lines 205-224.                                     *)

\* What the backend's search does on the store as it is; with an undefined
\* handle, vectorStore.isInMemory throws inside the try block.
BackendSearch(p, queryEmbedding, topK, ok) ==
    CASE vectorStore = "memory" ->
             SearchInMemoryChunks(Partition(documents, heap, p), queryEmbedding, topK)
      [] vectorStore = "chroma" ->
             SearchChromaChunks(collection, p, queryEmbedding, topK, ok)
      [] OTHER -> [threw |-> TRUE, results |-> <<>>]

\* A search whose sort reorders the project's own array.
ProjectDocsReordered(docs, queryEmbedding) ==
    [k \in 1..Len(docs) |-> docs[Len(docs) + 1 - k]]

\* projectDocs after searchInMemoryChunks: map builds a new array of new
\* objects (lines 266-269), and that array is what sort reorders and slice
\* and map read (272-280); the project's own array is left as it was.
ProjectDocsAfterSearch(docs, queryEmbedding) == docs

\* The arrays after a search on project p.
HeapAfterSearch(p, queryEmbedding) ==
    IF vectorStore = "memory" /\ documents[p] # NoRef
    THEN [heap EXCEPT ![documents[p]] = ProjectDocsAfterSearch(@, queryEmbedding)]
    ELSE heap

\* searchSimilarChunks(vectorStore, p, queryEmbedding, topK): nothing is
\* written; the outcome keeps what the backend's search did (threw, inner)
\* and what the caller gets (results).
Search(p, topK) ==
    /\ Ready
    /\ \E queryEmbedding \in QueryVectors, ok \in BOOLEAN :
           LET inner == BackendSearch(p, queryEmbedding, topK, ok)
           IN  /\ ret' = [op |-> "search", backend |-> vectorStore, projectId |-> p,
                          query |-> queryEmbedding, topK |-> topK,
                          threw |-> inner.threw, inner |-> inner.results,
                          raised |-> SearchOutcome(inner).threw,
                          results |-> SearchOutcome(inner).value]
              /\ heap' = HeapAfterSearch(p, queryEmbedding)
    /\ UNCHANGED <<vectorStore, documents, collection, calls, stores>>
    /\ UNCHANGED <<splitVars, embedVars, envVars, simVars, chatVars>>

(* getProjectStats (314-346), listProjects (375-404) and healthCheck       *)
(* (419-446) of vectorStore.js.                                            *)

JsNull == [type |-> "null"]

\* Math.max(...xs) for a non-empty array of numbers.
MaxOf(xs) ==
    CHOOSE m \in {xs[k] : k \in 1..Len(xs)} : \A k \in 1..Len(xs) : xs[k] <= m

\* What the try block of getProjectStats returns over the documents docs
\* of project p: lines 318-324 and 327-336.
StatsOf(docs, p) ==
    [projectId |-> p,
     documentCount |-> Len(docs),
     lastUpdated |-> IF Len(docs) > 0
                     THEN JsNumber(MaxOf([k \in 1..Len(docs) |-> docs[k].metadata.timestamp]))
                     ELSE JsNull,
     error |-> FALSE]

\* The catch block of getProjectStats: lines 337-345.
OnStatsError(p) ==
    [projectId |-> p, documentCount |-> 0, lastUpdated |-> JsNull, error |-> TRUE]

\* getProjectStats(vectorStore, p); ok is whether collection.get answers.
GetProjectStats(p, ok) ==
    CASE vectorStore = "memory" -> StatsOf(Partition(documents, heap, p), p)
      [] vectorStore = "chroma" /\ ok -> StatsOf(WhereProjectId(collection, p), p)
      [] OTHER -> OnStatsError(p)

\* The keys of the Map of the in-memory store.
MapKeys(docsMap) == {p \in Projects : docsMap[p] # NoRef}

\* listProjects(vectorStore), as the set of its entries (the order, that
\* of the Map's keys, is not kept): lines 377-398, and the catch block,
\* which returns [].
ListProjectsResult(ok) ==
    CASE vectorStore = "memory" ->
             {[projectId |-> p, documentCount |-> Len(heap[documents[p]])] :
                  p \in MapKeys(documents)}
      [] vectorStore = "chroma" /\ ok ->
             {[projectId |-> p, documentCount |-> Len(WhereProjectId(collection, p))] :
                  p \in {collection[k].metadata.projectId : k \in 1..Len(collection)}}
      [] OTHER -> {}

\* healthCheck(); ok is whether heartbeat and count answer.
HealthCheckResult(ok) ==
    CASE vectorStore = "memory" ->
             [status |-> "healthy", type |-> "in-memory",
              count |-> Cardinality(MapKeys(documents))]
      [] vectorStore = "chroma" /\ ok ->
             [status |-> "healthy", type |-> "chromadb", count |-> Len(collection)]
      [] OTHER -> [status |-> "unhealthy", type |-> "", count |-> 0]

Stats(p) ==
    /\ Ready
    /\ \E ok \in BOOLEAN :
           ret' = [op |-> "stats", backend |-> vectorStore, projectId |-> p,
                   value |-> GetProjectStats(p, ok)]
    /\ UNCHANGED <<vectorStore, documents, heap, collection, calls, stores>>
    /\ UNCHANGED <<splitVars, embedVars, envVars, simVars, chatVars>>

ListProjects ==
    /\ Ready
    /\ \E ok \in BOOLEAN :
           ret' = [op |-> "list", backend |-> vectorStore, value |-> ListProjectsResult(ok)]
    /\ UNCHANGED <<vectorStore, documents, heap, collection, calls, stores>>
    /\ UNCHANGED <<splitVars, embedVars, envVars, simVars, chatVars>>

HealthCheck ==
    /\ Ready
    /\ \E ok \in BOOLEAN :
           ret' = [op |-> "health", backend |-> vectorStore, value |-> HealthCheckResult(ok)]
    /\ UNCHANGED <<vectorStore, documents, heap, collection, calls, stores>>
    /\ UNCHANGED <<splitVars, embedVars, envVars, simVars, chatVars>>

(* retrieveSchemaContext: chatTool.js:75-101.                              *)

\* A catch block that lets the error through.
OnRetrieveErrorRethrow == [chunks |-> <<>>, hasContext |-> FALSE, threw |-> TRUE]

\* The catch block of lines 97-100.
OnRetrieveError == [chunks |-> <<>>, hasContext |-> FALSE, threw |-> FALSE]

\* The return of lines 92-95.
RetrieveResult(relevantChunks) ==
    [chunks |-> relevantChunks, hasContext |-> Len(relevantChunks) > 0, threw |-> FALSE]

\* retrieveSchemaContext(q, p), from the moment generateEmbeddings(query)
\* returns or throws (line 80) to the call's own return: the search runs on
\* the store as it is then, and nothing is written.
Retrieve(q, p) ==
    /\ Ready
    /\ \E e \in QueryEmbeddingOutcomes(q), ok \in BOOLEAN :
           LET inner == BackendSearch(p, e.value, MaxContextChunks, ok)
           IN  /\ ret' = [op |-> "retrieve", backend |-> vectorStore,
                          projectId |-> p, query |-> q,
                          embedThrew |-> e.threw,
                          searchThrew |-> ~e.threw /\ inner.threw,
                          value |-> IF e.threw \/ SearchOutcome(inner).threw
                                    THEN OnRetrieveError
                                    ELSE RetrieveResult(SearchOutcome(inner).value)]
               /\ heap' = IF e.threw THEN heap ELSE HeapAfterSearch(p, e.value)
    /\ UNCHANGED <<vectorStore, documents, collection, calls, stores>>
    /\ UNCHANGED <<splitVars, embedVars, envVars, simVars, chatVars>>

(* POST /upload-schema: index.js:167-273.                                   *)

\* The status of the response: 200 when the try block ran to res.json
\* (lines 244-254), 500 from the catch block (256-272) when
\* storeSchemaEmbeddings, schemaUpload.save or fs.unlink threw.
UploadStatus(stored, saved, unlinked) ==
    IF stored /\ saved /\ unlinked THEN 200 ELSE 500

\* The outcome of an upload whose store call has given outcome store.
UploadOutcome(store, saved, unlinked) ==
    [op |-> "upload", backend |-> store.backend, projectId |-> store.projectId,
     chunks |-> store.chunks, stored |-> store.ok,
     saved |-> store.ok /\ saved,
     status |-> UploadStatus(store.ok, saved, unlinked),
     rivals |-> store.rivals, deleted |-> store.deleted,
     before |-> store.before, beforeFiles |-> store.beforeFiles]

\* The outcome of an upload that a validation of lines 172-211 ended: no
\* projectId, no file, no text or no chunk.
UploadRejectedOutcome(p) ==
    [op |-> "upload", backend |-> vectorStore, projectId |-> p,
     chunks |-> <<>>, stored |-> FALSE, saved |-> FALSE, status |-> 400,
     rivals |-> {}, deleted |-> FALSE,
     before |-> Len(Stored(p)), beforeFiles |-> FilesOf(Stored(p))]

\* The handler from the return of storeSchemaEmbeddings (line 216) to its
\* response: the upload record is saved (224-234; the save rejects when the
\* database does, or when the request carried no userId, which the model
\* requires and the handler does not check), the statistics are updated
\* (238, which never throws), the file is removed (241).
UploadFinish ==
    /\ ret.op = "store"
    /\ \E saved \in BOOLEAN, unlinked \in BOOLEAN :
           /\ (~ret.ok => (~saved /\ ~unlinked))
           /\ (~saved => ~unlinked)
           /\ ret' = UploadOutcome(ret, saved, unlinked)
    /\ UNCHANGED <<vectorStore, documents, heap, collection, calls, stores>>
    /\ UNCHANGED <<splitVars, embedVars, envVars, simVars, chatVars>>

\* The handler returns 400 before it calls the store: lines 172-211.
UploadRejected(p) ==
    /\ Ready
    /\ ret' = UploadRejectedOutcome(p)
    /\ UNCHANGED <<vectorStore, documents, heap, collection, calls, stores>>
    /\ UNCHANGED <<splitVars, embedVars, envVars, simVars, chatVars>>

\* The caller has taken the outcome of the operation that completed.
Respond ==
    /\ ~Ready
    /\ ret' = NoOutcome
    /\ UNCHANGED <<vectorStore, documents, heap, collection, calls, stores>>
    /\ UNCHANGED <<splitVars, embedVars, envVars, simVars, chatVars>>

\* The chunk arrays a caller passes: the first n chunks of an uploaded
\* document, whose chunks alternate between the two texts.
ChunkLists ==
    {[i \in 1..n |-> IF i % 2 = 1 THEN <<"a">> ELSE <<"b">>] : n \in 0..MaxChunks}

Next ==
    \/ InitializeChroma
    \/ InitializeInMemory
    \/ \E c \in Calls, p \in Projects, cs \in ChunkLists, md \in SharedMetadatas :
           \/ StoreUninitialized(c, p, cs, md)
           \/ StoreInMemoryBegin(c, p, cs, md)
           \/ StoreChromaBegin(c, p, cs, md)
    \/ \E c \in Calls :
           \/ InMemoryEmbedded(c)
           \/ ChromaEmbedded(c)
           \/ ChromaAddOk(c)
           \/ ChromaAddFail(c)
           \/ ChromaCountFail(c)
    \/ \E p \in Projects :
           \/ DeleteUninitialized(p)
           \/ DeleteInMemory(p)
           \/ DeleteChromaOk(p)
           \/ DeleteChromaFail(p)
    \/ \E p \in Projects, topK \in 1..MaxTopK :
           Search(p, topK)
    \/ \E q \in Queries, p \in Projects :
           Retrieve(q, p)
    \/ \E p \in Projects :
           Stats(p)
    \/ ListProjects
    \/ HealthCheck
    \/ UploadFinish
    \/ \E p \in Projects :
           UploadRejected(p)
    \/ Respond

Spec == Init /\ [][Next]_vars

\* The same requests while the clock advances between their steps.
NextTimed == Next \/ Tick

SpecTimed == Init /\ [][NextTimed]_vars

----------------------------------------------------------------------------
(* One chat request: handleChatTask (index.js:112-162), chatTool           *)
(* (chatTool.js:20-44), generateStreamingResponse (165-248) and             *)
(* generateOpenAIResponse (253-289).  The events are what res.write sends.  *)

\* The most content fragments one model streams.
MaxFragments == 3

\* streamFn({ type: 'content', ... }) with a fragment of the named model.
ContentEvent(from) == [type |-> "content", from |-> from]

\* streamFn({ type: 'error', error: ... }) or streamFn({ error: ... }).
ErrorEvent(error) == [type |-> "error", from |-> error]

\* res.write('data: [DONE]\n\n').
DoneEvent == [type |-> "done", from |-> "handler"]

\* generateStreamingResponse returned: after the named model's stream
\* ended, or after a catch block ("none").
GenReturned(model) == [ended |-> "returned", answeredBy |-> model]

\* generateStreamingResponse did not return: an exception left it that no
\* catch block took.
GenUncaught == [ended |-> "uncaught", answeredBy |-> "none"]

\* streamFn(data): res.write of the event (index.js:124-127).
StreamFn(events, data) == Append(events, data)

\* The content fragments written so far that the named model produced.
FragmentsOf(events, from) ==
    Cardinality({k \in 1..Len(events) : events[k] = ContentEvent(from)})

\* fullResponse is empty: no event with a content was streamed
\* (index.js:129-131).
FullResponseEmpty(events) ==
    \A k \in 1..Len(events) : events[k].type # "content"

\* A request that passed the validation of index.js:83-87, as handleChatTask
\* has written the response head and asked for the conversation history.
ChatInit ==
    /\ SplitIdle
    /\ EmbedIdle
    /\ StoreIdle
    /\ SimIdle
    /\ providerDim = Dimensions
    /\ clock = 0
    /\ hasUserId \in BOOLEAN
    /\ openAIKey \in BOOLEAN
    /\ sse = <<>>
    /\ genOut = GenPending
    /\ chatPc = "history"

\* getConversationHistory returned, the history or [] from its catch
\* (index.js:385-400); chatTool begins the retrieval.
ChatHistory ==
    /\ chatPc = "history"
    /\ chatPc' = "retrieve"
    /\ UNCHANGED <<hasUserId, openAIKey, sse, genOut>>
    /\ UNCHANGED <<splitVars, embedVars, envVars, storeVars, simVars>>

\* retrieveSchemaContext returned (it never throws, chatTool.js:97-100),
\* the prompt is built and generateStreamingResponse asks for the model
\* catalog (169).
ChatRetrieved ==
    /\ chatPc = "retrieve"
    /\ chatPc' = "health"
    /\ UNCHANGED <<hasUserId, openAIKey, sse, genOut>>
    /\ UNCHANGED <<splitVars, embedVars, envVars, storeVars, simVars>>

\* The catch block of generateStreamingResponse, lines 233-247: the
\* fallback when the key is set, else an error event and the return.
GenerationCatch ==
    IF openAIKey
    THEN /\ chatPc' = "openai"
         /\ UNCHANGED <<sse, genOut>>
    ELSE /\ sse' = StreamFn(sse, ErrorEvent("LLM service unavailable"))
         /\ genOut' = GenReturned("none")
         /\ chatPc' = "save"

\* checkOllamaHealth passed: the generate request is posted (171-184).
OllamaHealthOk ==
    /\ chatPc = "health"
    /\ chatPc' = "generate"
    /\ UNCHANGED <<hasUserId, openAIKey, sse, genOut>>
    /\ UNCHANGED <<splitVars, embedVars, envVars, storeVars, simVars>>

\* checkOllamaHealth threw: no service, or no such model (294-318).
OllamaHealthFail ==
    /\ chatPc = "health"
    /\ GenerationCatch
    /\ UNCHANGED <<hasUserId, openAIKey>>
    /\ UNCHANGED <<splitVars, embedVars, envVars, storeVars, simVars>>

\* The generate request was answered with a stream: the listeners are
\* attached and the call awaits the stream's end (186-231).
OllamaGenerateOk ==
    /\ chatPc = "generate"
    /\ chatPc' = "stream"
    /\ UNCHANGED <<hasUserId, openAIKey, sse, genOut>>
    /\ UNCHANGED <<splitVars, embedVars, envVars, storeVars, simVars>>

\* The generate request failed before any data.
OllamaGenerateFail ==
    /\ chatPc = "generate"
    /\ GenerationCatch
    /\ UNCHANGED <<hasUserId, openAIKey>>
    /\ UNCHANGED <<splitVars, embedVars, envVars, storeVars, simVars>>

\* A 'data' event with a line that has a response: lines 188-205.
OllamaData ==
    /\ chatPc = "stream"
    /\ FragmentsOf(sse, "ollama") < MaxFragments
    /\ sse' = StreamFn(sse, ContentEvent("ollama"))
    /\ UNCHANGED <<hasUserId, openAIKey, genOut, chatPc>>
    /\ UNCHANGED <<splitVars, embedVars, envVars, storeVars, simVars>>

\* The 'end' event: the promise of lines 228-231 resolves and the call
\* returns to chatTool, which returns to handleChatTask (index.js:139-142).
OllamaStreamEnd ==
    /\ chatPc = "stream"
    /\ genOut' = GenReturned("ollama")
    /\ chatPc' = "save"
    /\ UNCHANGED <<hasUserId, openAIKey, sse>>
    /\ UNCHANGED <<splitVars, embedVars, envVars, storeVars, simVars>>

\* What an 'error' event of the stream leads to.  The listener of lines
\* 223-226 was attached first and throws inside the emitter: the listener
\* of line 230, which would reject the awaited promise, is not reached, no
\* try block is on the stack, and the exception is uncaught, which ends the
\* process (index.js installs no handler for it).
OnStreamError == "uncaught"

\* The 'error' event of the stream: the connection broke or timed out
\* after the response had begun.
OllamaStreamError ==
    /\ chatPc = "stream"
    /\ IF OnStreamError = "uncaught"
       THEN /\ genOut' = GenUncaught
            /\ chatPc' = "crashed"
            /\ UNCHANGED sse
       ELSE GenerationCatch
    /\ UNCHANGED <<hasUserId, openAIKey>>
    /\ UNCHANGED <<splitVars, embedVars, envVars, storeVars, simVars>>

\* The catch block of generateOpenAIResponse, lines 281-288.
OpenAICatch ==
    /\ sse' = StreamFn(sse, ErrorEvent("All LLM services unavailable"))
    /\ genOut' = GenReturned("none")
    /\ chatPc' = "save"

\* client.chat.completions.create answered with a stream (260-266).
OpenAICreateOk ==
    /\ chatPc = "openai"
    /\ chatPc' = "openaiStream"
    /\ UNCHANGED <<hasUserId, openAIKey, sse, genOut>>
    /\ UNCHANGED <<splitVars, embedVars, envVars, storeVars, simVars>>

\* Loading the client or creating the completion threw.
OpenAICreateFail ==
    /\ chatPc = "openai"
    /\ OpenAICatch
    /\ UNCHANGED <<hasUserId, openAIKey>>
    /\ UNCHANGED <<splitVars, embedVars, envVars, storeVars, simVars>>

\* One chunk of the completion with a content: lines 268-277.
OpenAIData ==
    /\ chatPc = "openaiStream"
    /\ FragmentsOf(sse, "openai") < MaxFragments
    /\ sse' = StreamFn(sse, ContentEvent("openai"))
    /\ UNCHANGED <<hasUserId, openAIKey, genOut, chatPc>>
    /\ UNCHANGED <<splitVars, embedVars, envVars, storeVars, simVars>>

\* The completion's stream is exhausted: the call returns.
OpenAIStreamEnd ==
    /\ chatPc = "openaiStream"
    /\ genOut' = GenReturned("openai")
    /\ chatPc' = "save"
    /\ UNCHANGED <<hasUserId, openAIKey, sse>>
    /\ UNCHANGED <<splitVars, embedVars, envVars, storeVars, simVars>>

\* The iteration over the completion's stream threw.
OpenAIStreamFail ==
    /\ chatPc = "openaiStream"
    /\ OpenAICatch
    /\ UNCHANGED <<hasUserId, openAIKey>>
    /\ UNCHANGED <<splitVars, embedVars, envVars, storeVars, simVars>>

\* conversationSchema accepts the record: userId and assistantResponse are
\* required (models/index.js:52-63), and an empty string is no value for a
\* required string.
ConversationValid == hasUserId /\ ~FullResponseEmpty(sse)

\* saveConversation resolved; updateProjectStats, which never throws
\* (index.js:420-442), ran; then lines 154-155.
ChatSaved ==
    /\ chatPc = "save"
    /\ ConversationValid
    /\ sse' = StreamFn(sse, DoneEvent)
    /\ chatPc' = "ended"
    /\ UNCHANGED <<hasUserId, openAIKey, genOut>>
    /\ UNCHANGED <<splitVars, embedVars, envVars, storeVars, simVars>>

\* saveConversation threw, on a validation error or on the database's: the
\* catch block of lines 156-161.
ChatSaveFailed ==
    /\ chatPc = "save"
    /\ sse' = StreamFn(StreamFn(sse, ErrorEvent("Failed to process chat request")),
                       DoneEvent)
    /\ chatPc' = "ended"
    /\ UNCHANGED <<hasUserId, openAIKey, genOut>>
    /\ UNCHANGED <<splitVars, embedVars, envVars, storeVars, simVars>>

ChatNext ==
    \/ ChatHistory
    \/ ChatRetrieved
    \/ OllamaHealthOk
    \/ OllamaHealthFail
    \/ OllamaGenerateOk
    \/ OllamaGenerateFail
    \/ OllamaData
    \/ OllamaStreamEnd
    \/ OllamaStreamError
    \/ OpenAICreateOk
    \/ OpenAICreateFail
    \/ OpenAIData
    \/ OpenAIStreamEnd
    \/ OpenAIStreamFail
    \/ ChatSaved
    \/ ChatSaveFailed

SpecChat == ChatInit /\ [][ChatNext]_vars

----------------------------------------------------------------------------
(* splitIntoChunks(text, chunkSize, overlap): index.js:444-468, and the    *)
(* identical copy at chatTool.js:49-73.                                    *)

\* lastSpace > start + chunkSize * 0.7, in tenths (exact for the integers
\* of the model: chunkSize * 0.7 is a whole number only for chunkSize 10,
\* where the double is 7 itself).
PastSeventyPercent(lastSpace, st, size) == 10 * lastSpace > 10 * st + 7 * size

\* The end of the window that starts at st: lines 449-456.
WindowEnd(s, st, size) ==
    LET end == st + size
        lastSpace == LastIndexOf(s, " ", end)
    IN  IF end < Len(s) /\ PastSeventyPercent(lastSpace, st, size)
        THEN lastSpace
        ELSE end

\* The chunk of the window [st, end): line 458.
WindowChunk(s, st, end) == Trim(Slice(s, st, end))

\* A cursor that moves past the end of the window instead of back from it.
NextStartForward(end, ov) == end + ov

\* The cursor of the next iteration: line 463.
NextStart(end, ov) == end - ov

\* The loop's exit test after the cursor moved: line 464.
BreakAfter(s, st) == st >= Len(s)

\* Texts of twelve characters for a chunkSize of 10, the smallest whose
\* 70% is a whole number of characters: one space, at index 6, 7 (the 70%
\* position of the first window), 8 or 9, among letters.
BoundaryTexts ==
    {[i \in 1..12 |-> IF i = k + 1 THEN " " ELSE "a"] : k \in 6..9}

SplitInit ==
    /\ EmbedIdle
    /\ StoreIdle
    /\ ChatIdle
    /\ SimIdle
    /\ providerDim = Dimensions
    /\ clock = 0
    /\ \/ /\ text \in StringsUpTo(MaxTextLen)
          /\ chunkSize \in 1..MaxChunkSize
       \/ /\ text \in BoundaryTexts
          /\ chunkSize = 10
    /\ overlap \in 0..(chunkSize - 1)
    /\ start = 0
    /\ chunks = <<>>
    /\ windows = <<>>
    /\ splitPc = "loop"

\* One iteration of the while loop: lines 448-465.
SplitIterate ==
    /\ splitPc = "loop"
    /\ start < Len(text)
    /\ Len(windows) < MaxIter
    /\ LET end == WindowEnd(text, start, chunkSize)
           raw == Slice(text, start, end)
           chunk == WindowChunk(text, start, end)
           from == SliceIndex(Len(text), start)
       IN  /\ chunks' = IF Len(chunk) > 0 THEN Append(chunks, chunk) ELSE chunks
           /\ windows' = Append(windows,
                  [start |-> start, end |-> end,
                   pulled |-> end # start + chunkSize,
                   emitted |-> Len(chunk) > 0,
                   lo |-> from + LeadingWs(raw),
                   hi |-> from + LeadingWs(raw) + Len(chunk)])
           /\ start' = NextStart(end, overlap)
           /\ splitPc' = IF BreakAfter(text, NextStart(end, overlap)) THEN "done" ELSE "loop"
    /\ UNCHANGED <<text, chunkSize, overlap>>
    /\ UNCHANGED <<embedVars, envVars, storeVars, simVars, chatVars>>

\* The while condition fails: line 448, then the return of line 467.
SplitExit ==
    /\ splitPc = "loop"
    /\ ~(start < Len(text))
    /\ splitPc' = "done"
    /\ UNCHANGED <<text, chunkSize, overlap, start, chunks, windows>>
    /\ UNCHANGED <<embedVars, envVars, storeVars, simVars, chatVars>>

SplitNext == SplitIterate \/ SplitExit

SpecSplit == SplitInit /\ [][SplitNext]_vars

----------------------------------------------------------------------------
(* Claims about the chunker, checked under SpecSplit.                      *)

\* The cursor after iteration k of the run so far.
CursorAfter(k) == IF k < Len(windows) THEN windows[k + 1].start ELSE start

\* C8: for every text and every 0 <= overlap < chunkSize, the cursor (start)
\* strictly increases from each iteration of the loop to the next, also in
\* the iterations whose end was pulled back to a space.
C8_CursorStrictlyIncreases ==
    \A k \in 1..Len(windows) : CursorAfter(k) > windows[k].start

\* C9: a text no longer than chunkSize splits into exactly one chunk, the
\* trimmed text.  (Stated for the texts that are not all white space; those
\* are the empty-sequence case of the degenerate inputs.)
C9_ShortTextOneChunk ==
    (splitPc = "done" /\ Len(text) <= chunkSize /\ Trim(text) # <<>>)
        => chunks = <<Trim(text)>>

\* The windows of the run that emitted a chunk, in order.
EmittedWindows == SelectSeq(windows, LAMBDA w : w.emitted)

\* C10: on a run of split that terminates on a non-empty text, consecutive
\* windows leave no gap: the first window starts at 0, each later window
\* starts at or before the end of the one before it, the last window reaches
\* the end of the text; hence every character that is not white space lies
\* in an emitted chunk, and the chunks are emitted in text order.
C10_WindowsLeaveNoGap ==
    (splitPc = "done" /\ Len(text) > 0) =>
        /\ Len(windows) >= 1
        /\ windows[1].start = 0
        /\ \A k \in 1..(Len(windows) - 1) : windows[k + 1].start <= windows[k].end
        /\ windows[Len(windows)].end >= Len(text)
        /\ \A i \in 0..(Len(text) - 1) :
               ~IsWhitespace(text[i + 1]) =>
                   \E k \in 1..Len(windows) :
                       /\ windows[k].emitted
                       /\ windows[k].lo <= i
                       /\ i < windows[k].hi
        /\ Len(chunks) = Len(EmittedWindows)
        /\ \A k \in 1..Len(chunks) :
               chunks[k] = Slice(text, EmittedWindows[k].lo, EmittedWindows[k].hi)
        /\ \A k \in 1..(Len(chunks) - 1) :
               /\ EmittedWindows[k].lo <= EmittedWindows[k + 1].lo
               /\ EmittedWindows[k].hi <= EmittedWindows[k + 1].hi

\* A terminated run of several windows, one of them pulled back to a space,
\* that emitted more than one chunk.
C10_Witness ==
    /\ splitPc = "done"
    /\ Len(windows) >= 3
    /\ Len(chunks) >= 2
    /\ \E k \in 1..Len(windows) : windows[k].pulled
    /\ \E k \in 1..Len(windows) : ~windows[k].emitted

\* The greatest index i <= position of a white-space character of s, or -1.
NearestWhitespace(s, position) ==
    LET hits == {i \in 0..Min(position, Len(s) - 1) : IsWhitespace(s[i + 1])}
    IN  IF hits = {} THEN 0 - 1
        ELSE CHOOSE i \in hits : \A j \in hits : j <= i

\* C26: for every window whose naive end start + chunkSize falls strictly
\* inside the text, the end is moved to the nearest whitespace at or before
\* the naive end exactly when that whitespace is no earlier than
\* start + 0.7 * chunkSize (a whitespace exactly at the 70% position
\* counts), and is left at start + chunkSize otherwise; hence such a window
\* spans at least 70% of chunkSize and at most chunkSize characters.
C26_PullBackRule ==
    \A k \in 1..Len(windows) :
        LET w == windows[k]
            naive == w.start + chunkSize
            ws == NearestWhitespace(text, naive)
        IN  naive < Len(text) =>
                /\ w.end = IF ws >= 0 /\ 10 * ws >= 10 * w.start + 7 * chunkSize
                           THEN ws ELSE naive
                /\ 10 * (w.end - w.start) >= 7 * chunkSize
                /\ w.end - w.start <= chunkSize

\* s is empty or made of white space only.
AllWhitespace(s) == \A i \in 1..Len(s) : IsWhitespace(s[i])

\* The run is on its way to its return: the cursor is all the state the
\* loop has, so a run that is back at a cursor it was at before repeats
\* itself for ever.
StillReturns ==
    \A j, k \in 1..(Len(windows) + 1) :
        j < k => CursorAfter(j - 1) # CursorAfter(k - 1)

\* C27: every chunk split emits is non-empty and has no leading or
\* trailing whitespace, and a call on an empty text or on a text of only
\* whitespace yields the empty sequence: it emits no chunk and returns.
C27_ChunksTrimmed ==
    /\ \A k \in 1..Len(chunks) :
           /\ Len(chunks[k]) > 0
           /\ ~IsWhitespace(chunks[k][1])
           /\ ~IsWhitespace(chunks[k][Len(chunks[k])])
    /\ AllWhitespace(text) => (chunks = <<>> /\ StillReturns)

----------------------------------------------------------------------------
(* Claims about the embedding provider chain, checked under SpecEmbed.     *)

\* A provider (primary or secondary) failed during the call.
ProviderFailed == \E k \in 1..Len(log) : log[k].ev = "fail"

\* C5: embed never propagates a provider failure: whatever the input and
\* whichever way the configured provider fails (connection refused, timeout,
\* model not found, malformed response, missing credential), the call
\* returns, and what it returns is the deterministic-fallback vector(s) of
\* the whole input, in the input's arity.
C5_ProviderFailureFallsBack ==
    /\ embedPc # "threw"
    /\ (embedPc = "returned" /\ ProviderFailed) =>
           result = Arity(input.isArray, GenerateMockEmbeddings(input.chunks))

\* A call on an array of two chunks whose first request succeeded and whose
\* second request failed, and that has returned.
C5_Witness ==
    /\ embedPc = "returned"
    /\ provider = "ollama"
    /\ input.isArray
    /\ Len(input.chunks) = 2
    /\ Len(embeddings) = 1
    /\ ProviderFailed

\* C6: when the primary provider fails, the secondary (hosted API) provider
\* is attempted next, and the deterministic fallback is used only after both
\* the primary and the secondary have failed in that call.  (Stated for a
\* process whose hosted-API credential is configured.)
C6_SecondaryBeforeFallback ==
    \A k \in 1..Len(log) :
        (/\ apiKey
         /\ log[k].ev = "mock"
         /\ \E j \in 1..(k - 1) : log[j].ev = "fail" /\ log[j].who = "ollama")
            => \E j \in 1..(k - 1) : log[j].ev = "fail" /\ log[j].who = "openai"

\* C19: when the hosted API is the selected provider and its credential is
\* absent, the call does not return vectors: it ends by reporting the
\* configuration error to its caller.
C19_MissingCredentialReported ==
    (provider = "openai" /\ ~apiKey /\ embedPc \in {"returned", "threw"})
        => embedPc = "threw"

\* v is one embedding of chunk: the provider's or the mock's vector for
\* that text, and so of the length one of them gives.
IsEmbeddingOf(v, chunk) ==
    /\ Len(v) \in {providerDim, Dimensions}
    /\ v \in {ProviderEmbedding(chunk, providerDim), MockEmbedding(chunk)}

\* C22: embed preserves the arity of its input under every provider and on
\* the fallback path: a call on one string returns one vector, of that
\* string, and a call on a sequence of n strings returns a sequence of n
\* vectors, the k-th of the k-th string.
C22_ArityPreserved ==
    embedPc = "returned" =>
        IF input.isArray
        THEN /\ Len(result) = Len(input.chunks)
             /\ \A k \in 1..Len(input.chunks) : IsEmbeddingOf(result[k], input.chunks[k])
        ELSE IsEmbeddingOf(result, input.chunks[1])

\* A call on one string whose provider failed has returned.
C22_Witness ==
    /\ embedPc = "returned"
    /\ ~input.isArray
    /\ provider = "ollama"
    /\ ProviderFailed
    /\ result = MockEmbedding(input.chunks[1])

----------------------------------------------------------------------------
(* Claims on the vector store and on retrieval.                            *)

\* The texts of a sequence of documents, in order.
TextsOf(docs) == [k \in 1..Len(docs) |-> docs[k].text]

\* C1: in the in-memory backend, when a store(p, chunks) call that no other
\* call on p overlapped completes, project p holds exactly len(chunks)
\* documents, the call's chunks in order, whatever p held before.
C1_StoreReplaces ==
    (/\ ret.op = "store"
     /\ ret.backend = "memory"
     /\ ret.ok
     /\ ret.rivals = {}
     /\ ~ret.deleted)
        => /\ Len(Stored(ret.projectId)) = Len(ret.chunks)
           /\ TextsOf(Stored(ret.projectId)) = ret.chunks

\* A store of one chunk has completed, alone, on a project that held two
\* documents when it began.
C1_Witness ==
    /\ ret.op = "store"
    /\ ret.backend = "memory"
    /\ ret.ok
    /\ ret.rivals = {}
    /\ ~ret.deleted
    /\ ret.before = 2
    /\ Len(ret.chunks) = 1

\* C2: for every backend, every result of search(p, q, k) is a document
\* that a store call for that same project p stored (the first part of a
\* document's id is the projectId of the call that built it).
C2_SearchStaysInProject ==
    ret.op = "search" =>
        \A k \in 1..Len(ret.results) : ret.results[k].id[1] = ret.projectId

\* The similarity searchInMemoryChunks computes for a document.
SimilarityTo(queryEmbedding, doc) == CosineSimilarity(queryEmbedding, doc.embedding)

\* Two similarities are equal.
SimEqual(s, t) == ~SimLess(s, t) /\ ~SimLess(t, s)

\* res lists the documents docs[f[1]], docs[f[2]], ... with their
\* similarities; documents of equal similarity keep their insertion order,
\* and no document left out is strictly more similar than one listed.
Selects(f, res, docs, q) ==
    /\ \A j, k \in DOMAIN f : j # k => f[j] # f[k]
    /\ \A k \in DOMAIN f : res[k] = SearchResult(docs[f[k]], SimilarityTo(q, docs[f[k]]))
    /\ \A j, k \in DOMAIN f :
           (j < k /\ SimEqual(res[j].similarity, res[k].similarity)) => f[j] < f[k]
    /\ \A m \in (1..Len(docs)) \ {f[k] : k \in DOMAIN f} :
           \A k \in DOMAIN f : ~SimLess(res[k].similarity, SimilarityTo(q, docs[m]))

C4_RetrieveNeverThrows ==
    ret.op = "retrieve" =>
        /\ ~ret.value.threw
        /\ ret.value.hasContext <=> (Len(ret.value.chunks) > 0)
        /\ (\/ ret.embedThrew
            \/ ret.searchThrew
            \/ ret.backend = "undefined"
            \/ Len(Stored(ret.projectId)) = 0)
               => (ret.value.chunks = <<>> /\ ~ret.value.hasContext)

\* A retrieval whose embedding step threw has returned, on a project that
\* holds documents.
C4_Witness ==
    /\ ret.op = "retrieve"
    /\ ret.embedThrew
    /\ Len(Stored(ret.projectId)) > 0
    /\ ~ret.value.threw
    /\ ret.value.chunks = <<>>

\* C7: when two store calls on the same project of the in-memory backend
\* overlap, then once both have completed the project's partition holds
\* exactly the chunks of one of the two calls, in that call's input order,
\* and no document of the other call.
C7_LastWriterWins ==
    (/\ ret.op = "store"
     /\ ret.backend = "memory"
     /\ ret.ok
     /\ ret.rivals # {}
     /\ ~ret.deleted
     /\ \A c \in Calls : calls[c].pc = "idle")
        => TextsOf(Stored(ret.projectId)) \in ({ret.chunks} \cup ret.rivals)

\* C11: store(projectId, chunks, sharedMetadata) returns to its caller the
\* number of chunks it stored, len(chunks) on success, and the ingestion
\* path records that number as chunksStored.
C11_StoreReturnsCount ==
    (ret.op = "store" /\ ret.ok) =>
        /\ ret.returned = JsNumber(Len(ret.chunks))
        /\ ret.chunksStored = JsNumber(Len(ret.chunks))

\* No document built by a store call for project p is in the store: p was
\* never stored, was stored with no chunk, or was deleted.
NothingStoredFor(p) ==
    CASE vectorStore = "memory" -> Partition(documents, heap, p) = <<>>
      [] vectorStore = "chroma" -> \A k \in 1..Len(collection) : collection[k].id[1] # p
      [] OTHER -> TRUE

\* C12: search on a project that was never stored, was stored with zero
\* chunks, or was deleted returns an empty sequence and never raises an
\* error, for any query vector and any topK.
C12_EmptyProjectSearch ==
    (ret.op = "search" /\ NothingStoredFor(ret.projectId)) =>
        (~ret.raised /\ ret.results = <<>>)

\* The query's length differs from a stored embedding's.
DimensionMismatch(queryEmbedding, docs) ==
    \E k \in 1..Len(docs) : Len(docs[k].embedding) # Len(queryEmbedding)

\* C13: a dimension mismatch between the query vector and a stored
\* embedding is surfaced to the caller of search as an error, never turned
\* into a normal-looking result such as an empty list.
C13_MismatchSurfaced ==
    (ret.op = "search" /\ DimensionMismatch(ret.query, Stored(ret.projectId)))
        => ret.raised

\* The embeddings of the documents the store holds, over all projects.
StoredEmbeddings ==
    CASE vectorStore = "memory" ->
             UNION {{Partition(documents, heap, p)[k].embedding :
                         k \in 1..Len(Partition(documents, heap, p))} : p \in Projects}
      [] vectorStore = "chroma" ->
             {collection[k].embedding : k \in 1..Len(collection)}
      [] OTHER -> {}

\* C14: in every reachable store state all stored documents' embeddings
\* have the same length D, also when the provider succeeds for some chunks
\* of an ingestion and the deterministic fallback answers for others.
C14_OneDimension ==
    \A x, y \in StoredEmbeddings : Len(x) = Len(y)

\* C15: similarity(a, b) fails with a dimension-mismatch error whenever
\* len(a) # len(b), and fails for no pair of equal-length vectors; for
\* either routine.
C15_SimilarityFailsOnMismatchOnly ==
    simPc = "done" => (simOut.out.threw <=> (Len(argA) # Len(argB)))

\* The routine of vectorStore.js was given vectors of lengths 1 and 2, and
\* threw.
C15_Witness ==
    /\ simPc = "done"
    /\ simOut.routine = "vectorStore"
    /\ Len(argA) = 1
    /\ Len(argB) = 2
    /\ simOut.out.threw

\* The L2 norm of v is exactly zero.
ZeroNorm(v) == DotProduct(v, v) = 0

\* C28: similarity(a, b) returns 0, and not an undefined or not-a-number
\* value, whenever a or b has L2 norm exactly zero, for every pair of
\* equal-length vectors and for each of the two routines.
C28_ZeroNormGivesZero ==
    (/\ simPc = "done"
     /\ Len(argA) = Len(argB)
     /\ ZeroNorm(argA) \/ ZeroNorm(argB))
        => /\ ~simOut.out.threw
           /\ simOut.out.num = 0
           /\ simOut.routine = "embed" => ~simOut.out.nan

\* C16: vector-store initialization never fails startup: if reusing the
\* named collection fails it tries to create it, and if that fails it
\* returns an in-memory store; in every outcome the process-wide store
\* handle is the store that was returned and initialization does not throw.
C16_InitializationNeverFails ==
    ret.op = "init" =>
        /\ ~ret.threw
        /\ ret.returned \in {"chroma", "memory"}
        /\ vectorStore = ret.returned
        /\ (ret.getCollection = "failed") <=> (ret.createCollection # "skipped")
        /\ (ret.createCollection = "failed") <=> (ret.returned = "memory")

\* Initialization has returned the in-memory store after getCollection and
\* createCollection both failed.
C16_Witness ==
    /\ ret.op = "init"
    /\ ret.getCollection = "failed"
    /\ ret.createCollection = "failed"
    /\ ret.returned = "memory"
    /\ vectorStore = "memory"

\* C17: a transient outage of the external index after startup never
\* aborts an ingestion: when the index's add fails during store, the store
\* still completes for its caller, through a degraded path, instead of
\* ending in an error.
C17_StoreSurvivesOutage ==
    (ret.op = "store" /\ ret.backend = "chroma" /\ ret.chunks # <<>>) => ret.ok

\* s is an initial part of t.
IsPrefix(s, t) == Len(s) <= Len(t) /\ SubSeq(t, 1, Len(s)) = s

\* The step is a deleteProject on p that took effect.
DeleteStep(p) == DeleteInMemory(p) \/ DeleteChromaOk(p)

\* The step is the beginning of an in-memory store on p.
StoreBeginStep(p) ==
    \E c \in Calls, cs \in ChunkLists, md \in SharedMetadatas :
        StoreInMemoryBegin(c, p, cs, md)

\* The step is a store call writing what it built.
StoreWriteStep ==
    \E c \in Calls : InMemoryEmbedded(c) \/ ChromaAddOk(c) \/ ChromaCountFail(c)

\* C18 as stated: a stored document is created only by store, is removed
\* only by an explicit deleteProject on its project and is never mutated in
\* place: a step that is not a deleteProject on p keeps every document of
\* p, in place and unchanged, and only a store adds to them.
C18_RemovedOnlyByDelete ==
    [][\A p \in Projects :
           /\ ~IsPrefix(Stored(p), Stored(p)') => DeleteStep(p)
           /\ (IsPrefix(Stored(p), Stored(p)') /\ Stored(p)' # Stored(p))
                  => StoreWriteStep]_vars

\* C18 amended: a stored document is created only by store, and is removed
\* only by an explicit deleteProject on the project that holds it or, in
\* the in-memory backend, by the beginning of a later store on that
\* project; it is never mutated in place.
C18_RemovedByDeleteOrRestore ==
    [][\A p \in Projects :
           /\ ~IsPrefix(Stored(p), Stored(p)') => (DeleteStep(p) \/ StoreBeginStep(p))
           /\ (IsPrefix(Stored(p), Stored(p)') /\ Stored(p)' # Stored(p))
                  => StoreWriteStep]_vars

\* An in-memory store is in flight, before its first push, on a project
\* that held documents when it began and holds none now.
C18_Witness ==
    /\ vectorStore = "memory"
    /\ \E c \in Calls :
           /\ calls[c].pc = "embed"
           /\ calls[c].i = 0
           /\ calls[c].before > 0
           /\ calls[c].rivals = {}
           /\ ~calls[c].deleted
           /\ Stored(calls[c].projectId) = <<>>

\* The embedding is deterministic over docs and hits the query: one of the
\* two embedding functions gave every document's vector from its text, and
\* the query is what that function gives for the text of the first document.
EmbeddedAlike(docs, queryEmbedding) ==
    \/ /\ \A k \in 1..Len(docs) : docs[k].embedding = MockEmbedding(docs[k].text)
       /\ queryEmbedding = MockEmbedding(docs[1].text)
    \/ /\ \A k \in 1..Len(docs) :
              docs[k].embedding = ProviderEmbedding(docs[k].text, providerDim)
       /\ queryEmbedding = ProviderEmbedding(docs[1].text, providerDim)

\* C20: in the in-memory backend, with a deterministic embedding, after
\* store(p, chunks) with chunks non-empty, search(p, embed(chunks[0]), 1)
\* returns exactly one result, and its text is chunks[0] or the text of a
\* chunk whose similarity to the query equals that of chunks[0].
C20_StoreThenSearchFindsFirst ==
    LET docs == Stored(ret.projectId)
    IN  (/\ ret.op = "search"
         /\ ret.backend = "memory"
         /\ ret.topK = 1
         /\ docs # <<>>
         /\ TextsOf(docs) \in ChunkLists
         /\ EmbeddedAlike(docs, ret.query))
            => /\ ~ret.raised
               /\ Len(ret.results) = 1
               /\ \/ ret.results[1].text = docs[1].text
                  \/ SimEqual(ret.results[1].similarity, SimilarityTo(ret.query, docs[1]))

\* A search with topK = 1 has returned the first of two stored chunks, for
\* a query that is the embedding of the first chunk, and the second chunk
\* is strictly less similar to the query.
C20_Witness ==
    LET docs == Stored(ret.projectId)
    IN  /\ ret.op = "search"
        /\ ret.backend = "memory"
        /\ ret.topK = 1
        /\ Len(docs) = 2
        /\ TextsOf(docs) \in ChunkLists
        /\ EmbeddedAlike(docs, ret.query)
        /\ Len(ret.results) = 1
        /\ ret.results[1].text = docs[1].text
        /\ ret.results[1].id = docs[1].id
        /\ SimLess(SimilarityTo(ret.query, docs[2]), SimilarityTo(ret.query, docs[1]))

\* The places <<project, position>> of the documents the in-memory store
\* holds.
AllInMemoryDocuments ==
    UNION {{<<p, k>> : k \in 1..Len(Partition(documents, heap, p))} : p \in Projects}

\* C21: no two documents of a store have the same id, also when two store
\* calls on one project run within the same clock tick.  Stated for the
\* in-memory backend, whose ids no other component checks.
C21_IdsUnique ==
    vectorStore = "memory" =>
        \A x, y \in AllInMemoryDocuments :
            x # y => Partition(documents, heap, x[1])[x[2]].id
                        # Partition(documents, heap, y[1])[y[2]].id

\* The first n documents of docs are those of the first n chunks of cs, in
\* input order: document k has the text of chunk k and chunkIndex k
\* (0-based: k - 1).
InInputOrder(docs, cs, n) ==
    /\ Len(docs) = n
    /\ \A k \in 1..n :
           /\ docs[k].text = cs[k]
           /\ docs[k].metadata.chunkIndex = k - 1

\* C23: within one store call the embedding request for chunk i + 1 is
\* issued only after chunk i's embedding was returned and recorded, so a
\* call waiting at chunk i + 1 has recorded exactly the documents of
\* chunks 1..i; on completion the document at position i of the batch has
\* text chunks[i] and chunkIndex i, for every i.  (In memory the batch is
\* the project's array, read when no other call shared it.)
C23_BatchInInputOrder ==
    /\ \A c \in Calls :
           (vectorStore = "chroma" /\ calls[c].pc \in {"embed", "add"})
               => InInputOrder(calls[c].batch, calls[c].chunks, calls[c].i)
    /\ \A c \in Calls :
           (/\ vectorStore = "memory"
            /\ calls[c].pc = "embed"
            /\ calls[c].rivals = {}
            /\ ~calls[c].deleted)
               => InInputOrder(heap[calls[c].projectDocs], calls[c].chunks, calls[c].i)
    /\ (/\ ret.op = "store"
        /\ ret.backend = "memory"
        /\ ret.ok
        /\ ret.rivals = {}
        /\ ~ret.deleted)
           => InInputOrder(Stored(ret.projectId), ret.chunks, Len(ret.chunks))

\* The entry is a POST /api/embeddings to the primary provider.
IsEmbeddingRequest(e) == e.ev = "request" /\ e.who = "ollama embeddings"

\* The requests, failures and delays of the ingestion so far, in order.
IngestionHistory == trace \o log

\* C24: when an ingestion embeds more than one chunk through the primary
\* provider, a pacing delay occurs between every two successive embedding
\* requests of that ingestion.
C24_PacedRequests ==
    ingestion # NoIngestion =>
        \A j, k \in 1..Len(IngestionHistory) :
            (/\ j < k
             /\ IsEmbeddingRequest(IngestionHistory[j])
             /\ IsEmbeddingRequest(IngestionHistory[k]))
                => \E m \in (j + 1)..(k - 1) : IngestionHistory[m].ev = "delay"

\* The advertised name equals the configured model name or starts with it.
Advertises(name) ==
    /\ Len(name) >= Len(ModelName)
    /\ \A i \in 1..Len(ModelName) : name[i] = ModelName[i]

\* The messages that name the model and the pull remediation.
NamesModelAndPull ==
    {"Model <model> not found. Available models: <names>. Please run: ollama pull <model>",
     "Model <model> not found. Please run: ollama pull <model>"}

\* C25: in a primary-provider embed call no embedding request is sent
\* unless the model-catalog probe of that call found a model whose name
\* equals or starts with the configured model name; when no such model is
\* advertised, the primary attempt fails with an error naming the model and
\* the pull remediation, and no embedding request is sent.
C25_ProbeGuardsRequests ==
    /\ (\E k \in 1..Len(log) : IsEmbeddingRequest(log[k]))
           => /\ catalog.answered
              /\ \E name \in catalog.models : Advertises(name)
    /\ (catalog.answered /\ ~\E name \in catalog.models : Advertises(name))
           => /\ \A k \in 1..Len(log) : ~IsEmbeddingRequest(log[k])
              /\ \E k \in 1..Len(log) :
                     /\ log[k].ev = "fail"
                     /\ log[k].who = "ollama"
                     /\ OllamaError(log[k].why) \in NamesModelAndPull

\* The probe answered with one model, whose name the configured name
\* begins with but does not equal, and the call has returned.
C25_Witness ==
    /\ catalog.answered
    /\ catalog.models = {<<"n">>}
    /\ embedPc = "returned"
    /\ ProviderFailed

\* The operations that only read the store.
ReadOps == {"search", "retrieve", "stats", "list", "health"}

\* The step leaves the in-memory store as it was: the same projects, each
\* with the same documents (ids, texts, embeddings, metadata) in the same
\* order.
InMemoryStoreUnchanged ==
    /\ MapKeys(documents') = MapKeys(documents)
    /\ \A p \in Projects :
           Partition(documents', heap', p) = Partition(documents, heap, p)

\* C29: search, stats, listProjects and healthCheck leave the in-memory
\* store unchanged: after any of them every project's document sequence
\* and the set of projects are the same as before; only store and
\* deleteProject change them.
C29_ReadsLeaveStoreUnchanged ==
    [][vectorStore = "memory" =>
           /\ ret'.op \in ReadOps => InMemoryStoreUnchanged
           /\ ~InMemoryStoreUnchanged =>
                  \/ StoreWriteStep
                  \/ \E p \in Projects : StoreBeginStep(p) \/ DeleteStep(p)]_vars

\* A search with topK = 2 has returned the two documents of a project in
\* the reverse of the order the project holds them in.
C29_Witness ==
    /\ ret.op = "search"
    /\ ret.backend = "memory"
    /\ ~ret.raised
    /\ Len(Stored(ret.projectId)) = 2
    /\ Len(ret.results) = 2
    /\ ret.results[1].id = Stored(ret.projectId)[2].id
    /\ ret.results[2].id = Stored(ret.projectId)[1].id
    /\ ret.results[1].text # ret.results[2].text

\* A store call on project p is in flight.
InFlightOn(p) == \E c \in Calls : calls[c].pc # "idle" /\ calls[c].projectId = p

\* What the read operations answer about project p in the present state:
\* every search is empty, the stats report no document and no update, and
\* the listing has no entry for p.
ReadsAsEmpty(p) ==
    /\ \A q \in QueryVectors, topK \in 1..MaxTopK :
           /\ ~SearchOutcome(BackendSearch(p, q, topK, TRUE)).threw
           /\ SearchOutcome(BackendSearch(p, q, topK, TRUE)).value = <<>>
    /\ GetProjectStats(p, TRUE).documentCount = 0
    /\ GetProjectStats(p, TRUE).lastUpdated = JsNull
    /\ \A e \in ListProjectsResult(TRUE) : e.projectId # p

\* C30: after deleteProject(p) completes on the in-memory backend with no
\* store on p in flight, search(p) returns an empty sequence, stats(p)
\* reports documentCount 0 and lastUpdated null, listProjects does not
\* list p, and every other project's documents are unchanged.  The reads
\* answer so when the delete has completed, and go on doing so until a
\* store on p begins.
C30_DeleteEmptiesProject ==
    /\ [](\A p \in Projects :
             (/\ ret.op = "delete"
              /\ ret.backend = "memory"
              /\ ret.projectId = p
              /\ ~InFlightOn(p))
                 => ReadsAsEmpty(p))
    /\ [][\A p \in Projects :
              /\ DeleteInMemory(p) =>
                     \A q \in Projects \ {p} :
                         Partition(documents', heap', q) = Partition(documents, heap, q)
              /\ (vectorStore = "memory" /\ ~InFlightOn(p) /\ ReadsAsEmpty(p))
                     => (ReadsAsEmpty(p)' \/ StoreBeginStep(p))]_vars

\* A deleteProject has completed on a project that held documents, with no
\* store on it in flight, while the other project holds documents.
C30_Witness ==
    /\ ret.op = "delete"
    /\ ret.backend = "memory"
    /\ ret.ok
    /\ ret.before > 0
    /\ ~InFlightOn(ret.projectId)
    /\ \E q \in Projects \ {ret.projectId} : Len(Stored(q)) > 0

\* C31: in the in-memory backend, a store(p, chunks, metadata) that runs
\* after the earlier ingestions of p have completed leaves in p only the
\* documents it built itself, whatever file the earlier documents came
\* from: after file A then file B, only B's chunks are found.
C31_StoreReplacesOtherFiles ==
    (/\ ret.op = "store"
     /\ ret.backend = "memory"
     /\ ret.ok
     /\ ret.rivals = {}
     /\ ~ret.deleted)
        => /\ FilesOf(Stored(ret.projectId)) \subseteq {ret.metadata.filename}
           /\ Len(Stored(ret.projectId)) = Len(ret.chunks)
           /\ \A k \in 1..Len(Stored(ret.projectId)) :
                  /\ Stored(ret.projectId)[k].text = ret.chunks[k]
                  /\ Stored(ret.projectId)[k].id[2] = k - 1
           /\ \A topK \in 1..MaxTopK, q \in QueryVectors :
                  LET found == SearchInMemoryChunks(Stored(ret.projectId), q, topK)
                  IN  \A k \in 1..Len(found.results) :
                          found.results[k].metadata.filename = ret.metadata.filename

\* File B has been stored, alone, into a project that held the chunks of
\* file A.
C31_Witness ==
    /\ ret.op = "store"
    /\ ret.backend = "memory"
    /\ ret.ok
    /\ ret.rivals = {}
    /\ ~ret.deleted
    /\ ret.beforeFiles = {"A.sql"}
    /\ ret.before = 2
    /\ ret.metadata.filename = "B.sql"
    /\ Len(ret.chunks) = 1

\* The documents of docs are the first ones a store call builds: its
\* chunks in input order, under its metadata, and not yet all of them.
StrictPrefixOf(docs, call) ==
    /\ Len(docs) < Len(call.chunks)
    /\ \A k \in 1..Len(docs) :
           /\ docs[k].text = call.chunks[k]
           /\ docs[k].id[2] = k - 1
           /\ docs[k].metadata.filename = call.metadata.filename

\* C32: in the in-memory backend, a search on project p that runs while a
\* store on p is suspended at an embedding await ranges over a partition
\* that holds only a strict prefix of that store's chunks, possibly none,
\* and no other document.
C32_SearchSeesNewPrefixOnly ==
    (ret.op = "search" /\ ret.backend = "memory") =>
        \A c \in Calls :
            (calls[c].pc = "embed" /\ calls[c].projectId = ret.projectId) =>
                StrictPrefixOf(Stored(ret.projectId), calls[c])

\* The same for a store that no other store on the project overlaps.
AloneSeesNewPrefixOnly ==
    (ret.op = "search" /\ ret.backend = "memory") =>
        \A c \in Calls :
            (/\ calls[c].pc = "embed"
             /\ calls[c].projectId = ret.projectId
             /\ calls[c].rivals = {}) =>
                StrictPrefixOf(Stored(ret.projectId), calls[c])

\* C33: whenever a store(p, chunks) call on the in-memory backend
\* completes without error, the partition of p contains that call's
\* chunks, also when a deleteProject(p) ran while the call was suspended
\* at an embedding await.  (Stated for a call that no other store on p
\* overlapped: what overlapping stores do to each other is C7.)
C33_CompletedStoreIsHeld ==
    (/\ ret.op = "store"
     /\ ret.backend = "memory"
     /\ ret.ok
     /\ ret.rivals = {})
        => \A i \in 1..Len(ret.chunks) :
               \E k \in 1..Len(Stored(ret.projectId)) :
                   /\ Stored(ret.projectId)[k].text = ret.chunks[i]
                   /\ Stored(ret.projectId)[k].id[2] = i - 1

\* C34: no ingestion and no retrieval is executed against a store handle
\* that is still undefined: a request handled before initialization has
\* completed waits for it or is served by a usable store, and does not fail
\* because of the handle.
C34_NoUseBeforeInitialized ==
    /\ ret.op \in {"store", "retrieve"} => ret.backend # "undefined"
    /\ (ret.op = "store" /\ ~ret.ok) => ret.backend # "undefined"

\* The store-assigned fields of every document of docs say what the store
\* assigned: the project and the position that its id was built from.
StoreFieldsAuthoritative(docs) ==
    \A k \in 1..Len(docs) :
        /\ docs[k].metadata.projectId = docs[k].id[1]
        /\ docs[k].metadata.chunkIndex = docs[k].id[2]

\* Every document of docs carries every key of the shared metadata md.
CarriesKeysOf(docs, md) ==
    \A k \in 1..Len(docs) : DOMAIN md \subseteq DOMAIN docs[k].metadata

\* C35: every document created by store(p, chunks, sharedMetadata) has
\* every key of sharedMetadata in its metadata, and its store-assigned
\* fields are authoritative: metadata.projectId is p and
\* metadata.chunkIndex is the chunk's position in the batch, whatever keys
\* sharedMetadata contains.
C35_StoreFieldsWin ==
    /\ \A r \in Refs : StoreFieldsAuthoritative(heap[r])
    /\ StoreFieldsAuthoritative(collection)
    /\ \A c \in Calls :
           /\ StoreFieldsAuthoritative(calls[c].batch)
           /\ CarriesKeysOf(calls[c].batch, calls[c].metadata)
           /\ (calls[c].pc = "embed" /\ vectorStore = "memory")
                  => CarriesKeysOf(heap[calls[c].projectDocs], calls[c].metadata)

\* C36: an upload request that ends with an error response leaves the
\* vector store unchanged: whichever step of the flow failed, saving the
\* upload record after the embeddings were stored included, the project
\* holds the documents it held before the request.  The documents are
\* compared by their number and the files they came from (exact when the
\* project was empty), for a request that no other store and no delete on
\* the project overlapped.
C36_FailedUploadChangesNothing ==
    (/\ ret.op = "upload"
     /\ ret.status >= 400
     /\ ret.rivals = {}
     /\ ~ret.deleted)
        => /\ Len(Stored(ret.projectId)) = ret.before
           /\ FilesOf(Stored(ret.projectId)) = ret.beforeFiles

----------------------------------------------------------------------------
(* Claims on the chat request.                                             *)

\* The request is over: the response was ended, or the process was.
ChatOver == chatPc \in {"ended", "crashed"}

\* The positions of the [DONE] terminators in the stream.
DonePositions == {k \in 1..Len(sse) : sse[k].type = "done"}

\* C37: every chat request that passed input validation writes exactly one
\* [DONE] terminator, as the last event of the stream, and then ends the
\* response, on the success path and on every failure path (retrieval,
\* generation, conversation persistence); no content or error event is
\* written after [DONE].
C37_OneTerminatorLast ==
    /\ DonePositions \subseteq {Len(sse)}
    /\ DonePositions # {} => chatPc = "ended"
    /\ ChatOver => (DonePositions = {Len(sse)} /\ chatPc = "ended")

\* The content fragments of the stream come from one model.
SingleGeneration ==
    \A j \in 1..Len(sse), k \in 1..Len(sse) :
        (sse[j].type = "content" /\ sse[k].type = "content") => sse[j].from = sse[k].from

\* The stream holds an error event that generation wrote.
GenerationErrorEvent ==
    \E k \in 1..Len(sse) :
        sse[k].type = "error" /\ sse[k].from # "Failed to process chat request"

\* C38: the content fragments streamed for one chat request come from a
\* single generation (when the primary model fails after it has streamed
\* fragments the fallback's output is not appended to them); generation
\* never throws; and when it is over and no model has answered, it has
\* emitted an error event.
C38_SingleGenerationNoThrow ==
    /\ SingleGeneration
    /\ genOut.ended \in {"pending", "returned"}
    /\ (genOut.ended # "pending" /\ genOut.answeredBy = "none") => GenerationErrorEvent

====
